---- MODULE Spec2Model ----

(***************************************************************************)
(* Model of auto_refactor_ai/project_analyzer.py: the AST canonicalizer    *)
(* (ASTNormalizer, normalize_ast, hash_function_body), the duplicate       *)
(* grouper (find_duplicates, DuplicateGroup) with its suggestions, the     *)
(* per-file extractor (extract_functions_from_file), the recommendations   *)
(* (generate_recommendations) and the scan of a project (analyze_project), *)
(* with the test of the path that handle_project_analysis of cli.py makes  *)
(* before it scans.                                                        *)
(*                                                                         *)
(* A syntax-tree node is a record [k, t, a, c]:                            *)
(*   k  the node class (ast.FunctionDef, ast.Name, ...); "list" is a       *)
(*      Python list of nodes (body, handlers, args);                       *)
(*   t  the type of a Constant's value ("str" or "int"), "" otherwise;     *)
(*   a  the node's non-node field (name, id, arg, value), "" when none;    *)
(*   c  the child nodes in _fields order.                                  *)
(* The grammar keeps the fields the functions of the model use: a          *)
(* function definition has name, args and body, a class has name and body. *)
(***************************************************************************)
EXTENDS Integers, Sequences, FiniteSets, TLC

VARIABLES
    func,       \* the function definition node handed to hash_function_body
    variant,    \* a second function definition, derived from func
    how,        \* how variant was derived from func
    dumps,      \* <<normalize_ast(func), normalize_ast(variant)>>
    hashes,     \* <<hash_function_body(func), hash_function_body(variant)>>
    npc,        \* position of the comparison: "start", "varied", "hashed"
    functions,  \* the FunctionSignature list handed to find_duplicates
    min_lines,  \* the min_lines argument of find_duplicates
    duplicates, \* the DuplicateGroup list find_duplicates returned
    report,     \* count, total_lines, potential_savings read from each group
    dpc,        \* position of the grouping: "input", "found", "reported"
    hashseed,   \* the interpreter's string-hash seed: fixes the order of str sets
    source,     \* the file handed to extract_functions_from_file
    tree,       \* the tree ast.parse returned, which the loop walks
    extracted,  \* the local list `functions` of extract_functions_from_file
    walk,       \* how many definitions of the tree the loop has taken
    returned,   \* what extract_functions_from_file returned
    xpc,        \* position in extract_functions_from_file
    scan_args,  \* [root_path, min_lines, similarity_threshold] of analyze_project
    disk,       \* what root_path names: [path, kind, files]
    python_files,   \* the files analyze_project found
    file_index,     \* how many of them the extraction loop has taken
    all_functions,  \* the signatures gathered from them
    analysis,   \* the ProjectAnalysis of the scan under way
    earlier,    \* the result of the scan before this one and its hash seed, if any
    output,     \* what handle_project_analysis printed
    spc,        \* position in analyze_project
    ai_results, \* ai_summary.results, the AI results handed to auto_refactor
    options,    \* [dry_run, interactive, backup_dir, create_backups] of auto_refactor
    rfile,      \* the source file on disk that the AI results are about
    backups,    \* the backup directory on disk: [status, files]
    linesep,    \* os.linesep of the host: what a written "\n" becomes
    now,        \* the clock, in seconds
    summary,    \* the RefactorSummary of auto_refactor
    ai_index,   \* how many AI results the loop of auto_refactor has taken
    result,     \* the RefactorResult of the call of process_single_refactoring under way
    entry,      \* the source file as it was when the last applying call began
    called,     \* which AI result the last applying call was made for, 0 for none
    ret,        \* the pair the last call of apply_refactoring returned
    rpc,        \* position in auto_refactor
    checked,    \* the rule, the function and the limit of the last style check
    issue       \* the Issue it returned, or None

nvars == <<func, variant, how, dumps, hashes, npc>>
dvars == <<functions, min_lines, duplicates, report, dpc>>
xvars == <<source, tree, extracted, walk, returned, xpc>>
svars == <<scan_args, disk, python_files, file_index, all_functions, analysis, earlier, output, spc>>
rvars == <<ai_results, options, rfile, backups, linesep, now, summary, ai_index, result, entry, called, ret, rpc>>
avars == <<checked, issue>>
vars == <<nvars, dvars, hashseed, xvars, svars, rvars, avars>>

(***************************************************************************)
(* Syntax trees                                                            *)
(***************************************************************************)
Node(k, t, a, c) == [k |-> k, t |-> t, a |-> a, c |-> c]
List(items) == Node("list", "", "", items)
Name(id, ctx) == Node("Name", "", id, <<Node(ctx, "", "", <<>>)>>)
Load(id) == Name(id, "Load")
Store(id) == Name(id, "Store")
StrConst(s) == Node("Constant", "str", s, <<>>)
IntConst(n) == Node("Constant", "int", n, <<>>)
Expr(value) == Node("Expr", "", "", <<value>>)
Return(value) == Node("Return", "", "", <<value>>)
Pass == Node("Pass", "", "", <<>>)
Op(o) == Node(o, "", "", <<>>)
BinOp(left, o, right) == Node("BinOp", "", "", <<left, Op(o), right>>)
Assign(target, value) == Node("Assign", "", "", <<List(<<target>>), value>>)
Ctl(k, test, body) == Node(k, "", "", <<test, List(body), List(<<>>)>>)
ExceptHandler(type, name, body) == Node("ExceptHandler", "", name, <<type, List(body)>>)
Try(body, handlers) == Node("Try", "", "", <<List(body), List(handlers)>>)
Arg(name, annotation) == Node("arg", "", name, annotation)
\* ast.arguments: posonlyargs, args, vararg, kwonlyargs; vararg is None or
\* one arg and is kept as a list of at most one arg
Arguments(posonlyargs, args, vararg, kwonlyargs) ==
    Node("arguments", "", "", <<List(posonlyargs), List(args), List(vararg), List(kwonlyargs)>>)
FuncDefArgs(k, name, arguments, body) == Node(k, "", name, <<arguments, List(body)>>)
FuncDef(k, name, args, body) == FuncDefArgs(k, name, Arguments(<<>>, args, <<>>, <<>>), body)
ClassDef(name, body) == Node("ClassDef", "", name, <<List(body)>>)
Module(body) == Node("Module", "", "", <<List(body)>>)

FuncKinds == {"FunctionDef", "AsyncFunctionDef"}
Operators == {"Add", "Mult"}        \* ast.operator classes
Loops == {"If", "While"}            \* ast.stmt classes with a test and a body
IsFunc(node) == node.k \in FuncKinds
BodyOf(node) == node.c[2].c             \* node.body
ArgsOf(node) == node.c[1].c[2].c       \* node.args.args

(***************************************************************************)
(* ast.walk                                                                *)
(*                                                                         *)
(* A node of a tree is named by its path: the indices that lead from the   *)
(* root to it through the c fields.                                        *)
(***************************************************************************)
RECURSIVE NodeAt(_, _)
NodeAt(node, path) ==
    IF path = <<>> THEN node ELSE NodeAt(node.c[Head(path)], Tail(path))

\* the tree with the node at path replaced by new
RECURSIVE ReplaceAt(_, _, _)
ReplaceAt(node, path, new) ==
    IF path = <<>> THEN new
    ELSE [node EXCEPT !.c[Head(path)] = ReplaceAt(@, Tail(path), new)]

\* ast.iter_child_nodes: the child nodes in field order, the items of a
\* list field one by one; i is the field reached
RECURSIVE ChildPaths(_, _, _)
ChildPaths(node, path, i) ==
    IF i > Len(node.c) THEN <<>>
    ELSE (IF node.c[i].k = "list"
          THEN [j \in 1..Len(node.c[i].c) |-> path \o <<i, j>>]
          ELSE <<path \o <<i>>>>)
         \o ChildPaths(node, path, i + 1)

\* ast.walk: todo is the deque of the nodes still to yield (breadth first)
RECURSIVE WalkFrom(_, _)
WalkFrom(root, todo) ==
    IF todo = <<>> THEN <<>>
    ELSE <<Head(todo)>>
         \o WalkFrom(root, Tail(todo) \o ChildPaths(NodeAt(root, Head(todo)), Head(todo), 1))

Walk(root) == WalkFrom(root, <<<<>>>>)

\* the nodes of ast.walk(tree) that pass the isinstance test of the loop
DefPaths(root) == SelectSeq(Walk(root), LAMBDA p : IsFunc(NodeAt(root, p)))

(***************************************************************************)
(* ASTNormalizer                                                           *)
(***************************************************************************)
\* ASTNormalizer.__init__
NewNormalizer == [name_map |-> <<>>, counter |-> 0]

\* mutant: the numbering starts at 1
VarNameFromOne(k) == "var_" \o ToString(k + 1)

\* f"var_{self.counter}"
VarName(k) == "var_" \o ToString(k)

\* name_map is a dict: a sequence of <<key, value>> pairs in insertion order.
MapHas(m, key) == \E i \in 1..Len(m) : m[i][1] = key
MapGet(m, key) == (CHOOSE i \in 1..Len(m) : m[i][1] = key) \* index of key
MapVal(m, key) == m[MapGet(m, key)][2]

\* ASTNormalizer._get_normalized_name: the state after the call
NameState(st, original) ==
    IF MapHas(st.name_map, original)
    THEN st
    ELSE [name_map |-> Append(st.name_map, <<original, VarName(st.counter)>>),
          counter |-> st.counter + 1]

\* ASTNormalizer._get_normalized_name: the value returned
NormalizedName(st, original) == MapVal(NameState(st, original).name_map, original)

\* the docstring test of visit_FunctionDef / visit_AsyncFunctionDef
HasDocstring(node) ==
    /\ BodyOf(node) # <<>>
    /\ BodyOf(node)[1].k = "Expr"
    /\ BodyOf(node)[1].c[1].k = "Constant"
    /\ BodyOf(node)[1].c[1].t = "str"

\* mutant: the docstring is stripped in visit_FunctionDef only
StripSyncOnly(node) ==
    [node EXCEPT !.a = "normalized_func",
                 !.c[2].c = IF node.k = "FunctionDef" /\ HasDocstring(node)
                            THEN Tail(@) ELSE @]

\* node.name = "normalized_func"; node.body = node.body[1:] when a docstring leads
StripFunc(node) ==
    [node EXCEPT !.a = "normalized_func",
                 !.c[2].c = IF HasDocstring(node) THEN Tail(@) ELSE @]

RECURSIVE Visit(_, _)
RECURSIVE VisitAll(_, _, _)

\* NodeTransformer.generic_visit: visit the child nodes in field order
GenericVisit(node, st) ==
    LET r == VisitAll(node.c, st, <<>>)
    IN [n |-> [node EXCEPT !.c = r.ns], st |-> r.st]

\* the loop of generic_visit over the children still to visit
VisitAll(todo, st, done) ==
    IF todo = <<>>
    THEN [ns |-> done, st |-> st]
    ELSE LET r == Visit(Head(todo), st)
         IN VisitAll(Tail(todo), r.st, Append(done, r.n))

\* NodeVisitor.visit: dispatch on the node class
Visit(node, st) ==
    CASE node.k = "Name" ->
            [n |-> [node EXCEPT !.a = NormalizedName(st, node.a)],
             st |-> NameState(st, node.a)]
      [] node.k = "arg" ->
            [n |-> [node EXCEPT !.a = NormalizedName(st, node.a)],
             st |-> NameState(st, node.a)]
      [] node.k \in FuncKinds -> GenericVisit(StripFunc(node), st)
      [] node.k = "Constant" ->
            [n |-> IF node.t = "str" THEN [node EXCEPT !.a = "str_const"] ELSE node,
             st |-> st]
      [] OTHER -> GenericVisit(node, st)

(***************************************************************************)
(* ast.dump(node, annotate_fields=False), as the sequence of its tokens    *)
(***************************************************************************)
Repr(s) == "'" \o s \o "'"

\* the classes of the grammar that carry a non-node field
HasField(node) ==
    node.k \in FuncKinds \cup {"arg", "Name", "Constant", "ExceptHandler", "ClassDef"}

FieldText(node) == IF node.k = "Constant" /\ node.t = "int" THEN node.a ELSE Repr(node.a)

\* how many child nodes precede the non-node field in _fields:
\* ExceptHandler(type, name, body), the others have the field first
FieldPlace(node) == IF node.k = "ExceptHandler" THEN 1 ELSE 0

\* mutant: the name of the base class (operator, stmt) instead of the class
BaseClassName(node) ==
    IF node.k \in Operators THEN "operator"
    ELSE IF node.k \in Loops THEN "stmt" ELSE node.k

\* node.__class__.__name__, which ast.dump writes before the fields
ClassName(node) == node.k

RECURSIVE Dump(_)
RECURSIVE DumpAll(_)

DumpAll(nodes) == IF nodes = <<>> THEN <<>> ELSE Dump(Head(nodes)) \o DumpAll(Tail(nodes))

Dump(node) ==
    IF node.k = "list"
    THEN <<"[">> \o DumpAll(node.c) \o <<"]">>
    ELSE <<ClassName(node), "(">>
         \o DumpAll(SubSeq(node.c, 1, FieldPlace(node)))
         \o (IF HasField(node) THEN <<FieldText(node)>> ELSE <<>>)
         \o DumpAll(SubSeq(node.c, FieldPlace(node) + 1, Len(node.c))) \o <<")">>

\* copy.deepcopy(node): a tree equal to node that shares no object with it
deepcopy(node) == node

\* normalize_ast: the normalizer runs on a deep copy made for this call
normalize_ast(node) == Dump(Visit(deepcopy(node), NewNormalizer).n)

\* mutant: the visitor runs on the caller's node, which it rewrites in place
NodeAfterVisit(node) == Visit(node, NewNormalizer).n

\* the caller's node when normalize_ast(node) has returned: the visitor
\* rewrote node_copy, an object apart from node
NodeAfterNormalize(node) == node

\* hashlib.md5(...).hexdigest(): a digest that is a function of the bytes
\* hashed; the 128-bit digest is taken collision-free on the bounded inputs.
Md5Hex(text) == <<"md5", text>>

hash_function_body(func_node) == Md5Hex(normalize_ast(func_node))

(***************************************************************************)
(* The variables of an operation that is not under way                     *)
(***************************************************************************)
DupIdle ==
    /\ functions = <<>>
    /\ min_lines = 0
    /\ duplicates = <<>>
    /\ report = <<>>
    /\ dpc = "idle"

ExtractIdle ==
    /\ source = [path |-> <<>>, status |-> "ok", tree |-> Module(<<>>), items |-> <<>>]
    /\ tree = Module(<<>>)
    /\ extracted = <<>>
    /\ walk = 0
    /\ returned = <<>>
    /\ xpc = "idle"

ProjectAnalysis(root_path, files_analyzed, functions_found, groups, recommendations) ==
    [root_path |-> root_path, files_analyzed |-> files_analyzed,
     functions_found |-> functions_found, duplicates |-> groups,
     recommendations |-> recommendations]

ScanIdle ==
    /\ scan_args = [root_path |-> <<>>, min_lines |-> 0, similarity_threshold |-> 0]
    /\ disk = [path |-> <<>>, kind |-> "missing", files |-> <<>>]
    /\ python_files = <<>>
    /\ file_index = 0
    /\ all_functions = <<>>
    /\ analysis = ProjectAnalysis(<<>>, 0, 0, <<>>, <<>>)
    /\ earlier = <<>>
    /\ output = <<>>
    /\ spc = "idle"

None == "None"      \* the None of a field that otherwise holds a str
NoPath == <<>>      \* the None of a field that otherwise holds a path

Line(text, eol) == [text |-> text, eol |-> eol]

RefactorResult(file_path, function_name, original_code, refactored_code, start_line, end_line) ==
    [file_path |-> file_path, function_name |-> function_name,
     original_code |-> original_code, refactored_code |-> refactored_code,
     start_line |-> start_line, end_line |-> end_line,
     backup_path |-> NoPath, diff |-> <<>>, applied |-> FALSE, skipped |-> FALSE,
     error |-> None]

RefactorSummary(results, backup_dir, dry_run) ==
    [results |-> results, backup_dir |-> backup_dir, dry_run |-> dry_run]

RefactorIdle ==
    /\ ai_results = <<>>
    /\ options = [dry_run |-> TRUE, interactive |-> FALSE, backup_dir |-> NoPath,
                  create_backups |-> TRUE]
    /\ rfile = [path |-> <<>>, status |-> "missing", lines |-> <<>>]
    /\ backups = [status |-> "ok", dirs |-> {}, files |-> {}]
    /\ linesep = "LF"
    /\ now = 0
    /\ summary = RefactorSummary(<<>>, NoPath, TRUE)
    /\ ai_index = 0
    /\ result = RefactorResult(<<>>, "", <<>>, <<>>, 0, 0)
    /\ entry = [path |-> <<>>, status |-> "missing", lines |-> <<>>]
    /\ called = 0
    /\ ret = [success |-> FALSE, error |-> None]
    /\ rpc = "idle"

RulesIdle ==
    /\ checked = [rule |-> "idle", node |-> Pass, limit |-> 0]
    /\ issue = <<>>

NormIdle ==
    /\ func = Pass
    /\ variant = Pass
    /\ how = "none"
    /\ dumps = <<>>
    /\ hashes = <<>>
    /\ npc = "idle"

(***************************************************************************)
(* The functions handed to the canonicalizer                               *)
(***************************************************************************)
MaxBody == 2        \* statements in a function body

Locals == {"a", "b"}                    \* parameter and local variable names
Fresh == {"x"}                          \* a name no function uses before renaming
Strs == {"s", "t"}                      \* contents of string literals
OtherStrs == {"a much longer text"}     \* contents no function uses before an edit
FuncNames == {"foo", "bar"}

Statements ==
    {Expr(StrConst(s)) : s \in Strs}
    \cup {Return(Load(x)) : x \in Locals}
    \cup {Assign(Store("a"), BinOp(Load("b"), o, IntConst("1"))) : o \in Operators}
    \cup {Ctl(k, Load("a"), <<Return(StrConst("s"))>>) : k \in Loops}
    \cup {Try(<<Pass>>, <<ExceptHandler(Load("Exception"), "b", <<Return(Load("b"))>>)>>)}

Bodies == UNION {[1..n -> Statements] : n \in 1..MaxBody}

ArgLists ==
    {<<>>, <<Arg("a", <<>>)>>, <<Arg("a", <<>>), Arg("b", <<>>)>>}
    \cup {<<Arg("a", <<StrConst(s)>>)>> : s \in Strs}

Functions == {FuncDef(k, "foo", args, body) : k \in FuncKinds, args \in ArgLists, body \in Bodies}

(***************************************************************************)
(* Edits of a function: the second function of a comparison                *)
(***************************************************************************)
\* the names a function binds or reads as variables: Name.id, arg.arg and
\* the name bound by an except handler
Renamed(sigma, id) == IF id \in DOMAIN sigma THEN sigma[id] ELSE id

RECURSIVE RenameTree(_, _)
RenameTree(node, sigma) ==
    [node EXCEPT !.a = IF node.k \in {"Name", "arg", "ExceptHandler"}
                       THEN Renamed(sigma, @) ELSE @,
                 !.c = [i \in 1..Len(node.c) |-> RenameTree(node.c[i], sigma)]]

Renamings == {sigma \in [Locals -> Locals \cup Fresh] :
                 \A x, y \in Locals : sigma[x] = sigma[y] => x = y}

\* the nodes an edit of kind `what` can change
Editable(node, what) ==
    CASE what = "string" -> node.k = "Constant" /\ node.t = "str"
      [] what = "operator" -> node.k \in Operators
      [] what = "control" -> node.k \in Loops

Edited(node, what, new) ==
    IF what = "string" THEN [node EXCEPT !.a = new] ELSE [node EXCEPT !.k = new]

RECURSIVE CountEditable(_, _)
RECURSIVE CountAll(_, _)
CountAll(nodes, what) ==
    IF nodes = <<>> THEN 0 ELSE CountEditable(Head(nodes), what) + CountAll(Tail(nodes), what)
CountEditable(node, what) ==
    (IF Editable(node, what) THEN 1 ELSE 0) + CountAll(node.c, what)

\* the node with its i-th editable node (in pre-order) changed to `new`
RECURSIVE EditAt(_, _, _, _)
RECURSIVE EditAll(_, _, _, _)
EditAll(nodes, what, i, new) ==
    IF nodes = <<>> THEN <<>>
    ELSE LET n == CountEditable(Head(nodes), what)
         IN IF i >= 1 /\ i <= n
            THEN <<EditAt(Head(nodes), what, i, new)>> \o Tail(nodes)
            ELSE <<Head(nodes)>> \o EditAll(Tail(nodes), what, i - n, new)
EditAt(node, what, i, new) ==
    IF Editable(node, what)
    THEN IF i = 1 THEN Edited(node, what, new)
         ELSE [node EXCEPT !.c = EditAll(@, what, i - 1, new)]
    ELSE [node EXCEPT !.c = EditAll(@, what, i, new)]

LeadsWithString(node) ==
    /\ BodyOf(node) # <<>>
    /\ BodyOf(node)[1].k = "Expr"
    /\ BodyOf(node)[1].c[1] \in {StrConst(s) : s \in Strs \cup OtherStrs}

Swap(seq, i) ==
    [j \in 1..Len(seq) |-> IF j = i THEN seq[i + 1] ELSE IF j = i + 1 THEN seq[i] ELSE seq[j]]

(***************************************************************************)
(* Comparing the hashes of a function and of an edit of it                 *)
(***************************************************************************)
NormInit ==
    /\ func \in Functions
    /\ variant = func
    /\ how = "none"
    /\ dumps = <<>>
    /\ hashes = <<>>
    /\ npc = "start"
    /\ DupIdle
    /\ ExtractIdle
    /\ hashseed = 0
    /\ ScanIdle
    /\ RefactorIdle
    /\ RulesIdle

Vary(kind, node) ==
    /\ npc = "start"
    /\ node # func
    /\ variant' = node
    /\ how' = kind
    /\ npc' = "varied"
    /\ UNCHANGED <<func, dumps, hashes, dvars, hashseed, xvars, svars, rvars, avars>>

\* rename the variables consistently and give the function another name
RenameVars ==
    \E sigma \in Renamings, name \in FuncNames :
        Vary("rename", [RenameTree(func, sigma) EXCEPT !.a = name])

\* replace the contents of one string literal
ReplaceString ==
    \E i \in 1..CountEditable(func, "string"), s \in Strs \cup OtherStrs :
        Vary("string", EditAt(func, "string", i, s))

\* remove the leading bare string-literal statement
DropDocstring ==
    /\ LeadsWithString(func)
    /\ Len(BodyOf(func)) > 1
    /\ Vary("docstring", [func EXCEPT !.c[2].c = Tail(@)])

\* exchange two neighbouring statements of the body
SwapStatements ==
    \E i \in 1..(Len(BodyOf(func)) - 1) :
        Vary("order", [func EXCEPT !.c[2].c = Swap(@, i)])

\* replace one operator by another
ChangeOperator ==
    \E i \in 1..CountEditable(func, "operator"), o \in Operators :
        Vary("operator", EditAt(func, "operator", i, o))

\* replace one compound statement by another with the same test and body
ChangeControl ==
    \E i \in 1..CountEditable(func, "control"), k \in Loops :
        Vary("control", EditAt(func, "control", i, k))

\* hash_function_body on both functions
Hash ==
    /\ npc = "varied"
    /\ dumps' = <<normalize_ast(func), normalize_ast(variant)>>
    /\ hashes' = <<hash_function_body(func), hash_function_body(variant)>>
    /\ npc' = "hashed"
    /\ UNCHANGED <<func, variant, how, dvars, hashseed, xvars, svars, rvars, avars>>

NormNext ==
    \/ RenameVars
    \/ ReplaceString
    \/ DropDocstring
    \/ SwapStatements
    \/ ChangeOperator
    \/ ChangeControl
    \/ Hash

SpecNorm == NormInit /\ [][NormNext]_vars

(***************************************************************************)
(* Canonicalization claims                                                 *)
(***************************************************************************)
Compared(kind) == npc = "hashed" /\ how = kind

Tokens(dump) == {dump[i] : i \in 1..Len(dump)}

RECURSIVE HasClass(_, _)
HasClass(node, k) == node.k = k \/ \E i \in 1..Len(node.c) : HasClass(node.c[i], k)

\* a statement with its identifiers, string contents and the docstrings of
\* the definitions in it erased
RECURSIVE Shape(_)
Shape(node) ==
    LET n == IF IsFunc(node) /\ LeadsWithString(node)
             THEN [node EXCEPT !.c[2].c = Tail(@)] ELSE node
    IN [n EXCEPT !.a = IF n.k \in FuncKinds \cup {"Name", "arg", "ExceptHandler"}
                          \/ (n.k = "Constant" /\ n.t = "str")
                       THEN "" ELSE @,
                 !.c = [i \in 1..Len(n.c) |-> Shape(n.c[i])]]

\* the statements an "order" edit exchanged
SwappedAt == CHOOSE i \in 1..Len(BodyOf(func)) : BodyOf(func)[i] # BodyOf(variant)[i]

\* C1: a consistent renaming of the parameters and local variables of a
\* function, with any change of the function's own name, leaves
\* hash_function_body unchanged.
C1_RenamingKeepsHash == Compared("rename") => hashes[1] = hashes[2]

\* the renaming changes the hash through except handlers only
C1_RenamingKeepsHashWithoutHandlers ==
    (Compared("rename") /\ ~HasClass(func, "ExceptHandler")) => hashes[1] = hashes[2]

C3_StringKeepsHash == Compared("string") => hashes[1] = hashes[2]

\* the edit of a string changes the hash in parameter annotations only
C3_BodyStringKeepsHash ==
    (Compared("string") /\ ArgsOf(func) = ArgsOf(variant)) => hashes[1] = hashes[2]

\* C4 as stated: a function whose body starts with a bare string literal
\* hashes like the function without that statement, and the text of the
\* literal does not occur in the output of normalize_ast.
C4_DocstringKeepsHash ==
    Compared("docstring") =>
        /\ hashes[1] = hashes[2]
        /\ Repr(BodyOf(func)[1].c[1].a) \notin Tokens(dumps[1])

\* C4 amended: a function (def or async def) whose body starts with a bare
\* string literal that is not followed by another one hashes like the
\* function without that statement, and no statement of normalize_ast's
\* output stems from it: the output has the canonical forms of the
\* remaining statements and nothing else.
C4_SingleDocstringKeepsHash ==
    (Compared("docstring") /\ ~LeadsWithString(variant)) =>
        /\ hashes[1] = hashes[2]
        /\ Len(BodyOf(Visit(func, NewNormalizer).n)) = Len(BodyOf(func)) - 1

C4_Witness ==
    /\ Compared("docstring")
    /\ ~LeadsWithString(variant)
    /\ func.k = "AsyncFunctionDef"
    /\ hashes[1] = hashes[2]

(***************************************************************************)
(* Claims on the names in the canonical form                               *)
(***************************************************************************)
\* the names the author chose in a function: its own, those of its
\* parameters and variables and the names its except handlers bind
RECURSIVE AuthorNames(_)
AuthorNames(node) ==
    (IF node.k \in FuncKinds \cup {"Name", "arg", "ExceptHandler"} THEN {node.a} ELSE {})
    \cup UNION {AuthorNames(node.c[i]) : i \in 1..Len(node.c)}

\* C25: the output of normalize_ast for a function holds none of the names
\* the author chose: the function name, the parameters and the variables,
\* those bound by an except handler included, are replaced by placeholders.
C25_NoAuthorNameInDump ==
    npc = "hashed" =>
        \A name \in AuthorNames(func) : Repr(name) \notin Tokens(dumps[1])

\* the names that remain are those bound by except handlers
C25_NoAuthorNameWithoutHandlers ==
    (npc = "hashed" /\ ~HasClass(func, "ExceptHandler")) =>
        \A name \in AuthorNames(func) : Repr(name) \notin Tokens(dumps[1])

\* the identifiers of the Name and arg nodes of a tree, in the order in
\* which a traversal in field order meets them
RECURSIVE IdsOf(_)
RECURSIVE IdsOfAll(_)
IdsOfAll(nodes) == IF nodes = <<>> THEN <<>> ELSE IdsOf(Head(nodes)) \o IdsOfAll(Tail(nodes))
IdsOf(node) == (IF node.k \in {"Name", "arg"} THEN <<node.a>> ELSE <<>>) \o IdsOfAll(node.c)

\* how many distinct identifiers are met before the first occurrence of the
\* i-th one
Rank(ids, i) ==
    LET first == CHOOSE j \in 1..i : ids[j] = ids[i] /\ \A k \in 1..(j - 1) : ids[k] # ids[i]
    IN Cardinality({ids[j] : j \in 1..(first - 1)})

\* C26: within one canonicalization the renaming is an injective
\* substitution numbered by first occurrence: the k-th distinct identifier
\* met becomes var_k, counted from 0, at each of its occurrences, so that
\* distinct identifiers get distinct tokens and n identifiers get the tokens
\* var_0 .. var_(n-1).
C26_RenamingNumbersFirstOccurrences ==
    npc = "hashed" =>
        LET ids == IdsOf(func)
            tokens == IdsOf(NodeAfterVisit(func))
        IN /\ Len(tokens) = Len(ids)
           /\ \A i \in 1..Len(ids) : tokens[i] = "var_" \o ToString(Rank(ids, i))

C26_Witness ==
    /\ npc = "hashed"
    /\ IdsOf(func) = <<"a", "b", "a", "Exception", "b">>
    /\ IdsOf(NodeAfterVisit(func)) = <<"var_0", "var_1", "var_0", "var_2", "var_1">>

(***************************************************************************)
(* FunctionSignature, DuplicateGroup                                       *)
(*                                                                         *)
(* A file path is the sequence of its components: <<"pkg", "a.py">> is     *)
(* pkg/a.py.                                                               *)
(***************************************************************************)
FunctionSignature(file, name, start_line, end_line, parameters, body_hash, parameter_count, line_count) ==
    [file |-> file, name |-> name, start_line |-> start_line, end_line |-> end_line,
     parameters |-> parameters, body_hash |-> body_hash,
     parameter_count |-> parameter_count, line_count |-> line_count]

\* DuplicateGroup.count
count(g) == Len(g.functions)

RECURSIVE SumLines(_)
SumLines(fs) == IF fs = <<>> THEN 0 ELSE Head(fs).line_count + SumLines(Tail(fs))

\* DuplicateGroup.total_lines
total_lines(g) == SumLines(g.functions)

\* mutant: the average itself is returned
AverageLines(g) == IF count(g) <= 1 THEN 0 ELSE total_lines(g) \div count(g)

\* DuplicateGroup.potential_savings
potential_savings(g) ==
    IF count(g) <= 1
    THEN 0
    ELSE LET avg_lines == total_lines(g) \div count(g)
         IN total_lines(g) - avg_lines

(***************************************************************************)
(* Suggestion heuristics                                                   *)
(***************************************************************************)
\* the characters of the names and words of the model: iterating a str
\* yields Spelling[s], and "".join(chars) is the str spelled chars
Spelling ==
    ("get_user_data" :> <<"g", "e", "t", "_", "u", "s", "e", "r", "_", "d", "a", "t", "a">>) @@
    ("set_user_data" :> <<"s", "e", "t", "_", "u", "s", "e", "r", "_", "d", "a", "t", "a">>) @@
    ("getUser" :> <<"g", "e", "t", "U", "s", "e", "r">>) @@
    ("__init__" :> <<"_", "_", "i", "n", "i", "t", "_", "_">>) @@
    ("set" :> <<"s", "e", "t">>) @@
    ("init" :> <<"i", "n", "i", "t">>) @@
    ("get_user" :> <<"g", "e", "t", "_", "u", "s", "e", "r">>) @@
    ("fetch_user" :> <<"f", "e", "t", "c", "h", "_", "u", "s", "e", "r">>) @@
    ("load_data" :> <<"l", "o", "a", "d", "_", "d", "a", "t", "a">>) @@
    ("get" :> <<"g", "e", "t">>) @@
    ("user" :> <<"u", "s", "e", "r">>) @@
    ("fetch" :> <<"f", "e", "t", "c", "h">>) @@
    ("load" :> <<"l", "o", "a", "d">>) @@
    ("data" :> <<"d", "a", "t", "a">>) @@
    ("foo" :> <<"f", "o", "o">>) @@
    ("bar" :> <<"b", "a", "r">>)
Chars(s) == Spelling[s]
Join(chars) == CHOOSE s \in DOMAIN Spelling : Spelling[s] = chars

\* str.isupper and str.lower on the characters the names are written in
LowerCase == ("P" :> "p") @@ ("U" :> "u")
IsUpper(ch) == ch \in DOMAIN LowerCase
Lower(ch) == IF IsUpper(ch) THEN LowerCase[ch] ELSE ch

\* the loop of _find_common_words splitting one name into its set of words
RECURSIVE SplitWords(_, _, _, _)
SplitWords(name, i, current, words) ==
    IF i > Len(name)
    THEN IF current # <<>> THEN words \cup {Join(current)} ELSE words
    ELSE LET char == name[i]
         IN IF char = "_"
            THEN SplitWords(name, i + 1, <<>>,
                            IF current # <<>> THEN words \cup {Join(current)} ELSE words)
            ELSE IF IsUpper(char) /\ current # <<>>
                 THEN SplitWords(name, i + 1, <<Lower(char)>>, words \cup {Join(current)})
                 ELSE SplitWords(name, i + 1, Append(current, Lower(char)), words)

\* the order in which iterating a set of str yields its elements; it depends
\* on the hash seed of the interpreter
RECURSIVE Enumerate(_)
Enumerate(S) ==
    IF S = {} THEN <<>>
    ELSE LET x == CHOOSE y \in S : TRUE IN <<x>> \o Enumerate(S \ {x})
Reverse(seq) == [i \in 1..Len(seq) |-> seq[Len(seq) + 1 - i]]
SetOrder(S) == IF hashseed = 0 THEN Enumerate(S) ELSE Reverse(Enumerate(S))

\* sorted(seq, key=..., reverse=True) and list.sort: stable, largest key
\* first; keys[i] is the key of seq[i]
SortedDesc(seq, keys) ==
    LET n == Len(seq)
        pos(i) == 1 + Cardinality({j \in 1..n :
                        \/ keys[j] > keys[i]
                        \/ keys[j] = keys[i] /\ j < i})
    IN [p \in 1..n |-> seq[CHOOSE i \in 1..n : pos(i) = p]]

\* mutant: the common words are not sorted by length
CommonWordsUnsorted(names) ==
    IF names = <<>>
    THEN <<>>
    ELSE LET word_sets == [i \in 1..Len(names) |-> SplitWords(Chars(names[i]), 1, <<>>, {})]
         IN SetOrder({w \in word_sets[1] : \A i \in 1..Len(names) : w \in word_sets[i]})

_find_common_words(names) ==
    IF names = <<>>
    THEN <<>>
    ELSE LET word_sets == [i \in 1..Len(names) |-> SplitWords(Chars(names[i]), 1, <<>>, {})]
             common == {w \in word_sets[1] : \A i \in 1..Len(names) : w \in word_sets[i]}
             words == SetOrder(common)
         IN SortedDesc(words, [i \in 1..Len(words) |-> Len(Chars(words[i]))])

\* Path(file).parent and Path.name
Parent(path) == SubSeq(path, 1, Len(path) - 1)
PathName(path) == IF path = <<>> THEN "" ELSE path[Len(path)]

\* mutant: the directories are compared by path, not by name
SuggestModuleByPath(fs) ==
    IF Cardinality({Parent(fs[i].file) : i \in 1..Len(fs)}) = 1
    THEN <<PathName(Parent(fs[1].file)), "utils.py">>
    ELSE Parent(fs[1].file) \o <<"shared.py">>

\* a path is the sequence of its components: "dir1/utils.py" is <<"dir1", "utils.py">>
_suggest_module(fs) ==
    LET dirs == [i \in 1..Len(fs) |-> PathName(Parent(fs[i].file))]
    IN IF Cardinality({dirs[i] : i \in 1..Len(fs)}) = 1
       THEN <<dirs[1], "utils.py">>
       ELSE Parent(fs[1].file) \o <<"shared.py">>

(***************************************************************************)
(* find_duplicates                                                         *)
(***************************************************************************)
\* mutant: the filter is off by one line
IsCandidateBelow(f, n) == f.line_count >= n - 1

\* candidates = [f for f in functions if f.line_count >= min_lines]
IsCandidate(f, n) == f.line_count >= n
Candidates(fs, n) == SelectSeq(fs, LAMBDA f : IsCandidate(f, n))

\* mutant: only a run of neighbours with one hash shares a bucket
AppendToLast(hash_groups, f) ==
    IF hash_groups # <<>> /\ hash_groups[Len(hash_groups)].key = f.body_hash
    THEN [hash_groups EXCEPT ![Len(hash_groups)].group = Append(@, f)]
    ELSE Append(hash_groups, [key |-> f.body_hash, group |-> <<f>>])

\* hash_groups is a dict: the sequence of its [key, group] items in insertion
\* order. hash_groups[func.body_hash].append(func):
AppendTo(hash_groups, f) ==
    IF \E i \in 1..Len(hash_groups) : hash_groups[i].key = f.body_hash
    THEN [i \in 1..Len(hash_groups) |->
            IF hash_groups[i].key = f.body_hash
            THEN [hash_groups[i] EXCEPT !.group = Append(@, f)]
            ELSE hash_groups[i]]
    ELSE Append(hash_groups, [key |-> f.body_hash, group |-> <<f>>])

RECURSIVE HashGroups(_, _)
HashGroups(candidates, hash_groups) ==
    IF candidates = <<>> THEN hash_groups
    ELSE HashGroups(Tail(candidates), AppendTo(hash_groups, Head(candidates)))

\* mutant: a bucket of one member counts as a group
HasMembers(group) == Len(group) >= 1

\* if len(group) >= 2
HasDuplicates(group) == Len(group) >= 2

\* the DuplicateGroup made of one bucket; similarity 1.0 is written in percent
MakeGroup(group) ==
    LET common_words == _find_common_words([i \in 1..Len(group) |-> group[i].name])
    IN [functions |-> group,
        similarity |-> 100,
        suggested_name |-> IF common_words # <<>> THEN common_words[1] ELSE group[1].name,
        suggested_module |-> _suggest_module(group)]

\* mutant: the sort without reverse=True
SortGroupsAscending(groups) ==
    SortedDesc(groups, [i \in 1..Len(groups) |-> 0 - count(groups[i])])

\* duplicates.sort(key=lambda g: g.count, reverse=True)
SortGroups(groups) ==
    SortedDesc(groups, [i \in 1..Len(groups) |-> count(groups[i])])

\* mutant: a group is kept only when its similarity is above the threshold
FindDuplicatesAbove(fs, threshold, n) ==
    LET hash_groups == HashGroups(Candidates(fs, n), <<>>)
        kept == SelectSeq(hash_groups,
                          LAMBDA item : HasDuplicates(item.group) /\ 100 > threshold)
    IN SortGroups([i \in 1..Len(kept) |-> MakeGroup(kept[i].group)])

\* similarity_threshold is a parameter the body never reads
find_duplicates(fs, threshold, n) ==
    LET hash_groups == HashGroups(Candidates(fs, n), <<>>)
        kept == SelectSeq(hash_groups, LAMBDA item : HasDuplicates(item.group))
    IN SortGroups([i \in 1..Len(kept) |-> MakeGroup(kept[i].group)])

(***************************************************************************)
(* generate_recommendations                                                *)
(*                                                                         *)
(* A recommendation is [kind, name, n, savings]: "duplicates" stands for   *)
(* "Found {n} group(s) of duplicate code. Consolidating could save         *)
(* ~{savings} lines." and "same_name" for "Function '{name}' appears in    *)
(* {n} files. Consider if these should be consolidated."                   *)
(***************************************************************************)
Lifecycle == {"__init__", "main", "setup"}

\* the keys of the dict name_to_files, in insertion order
RECURSIVE NameOrder(_, _)
NameOrder(fs, seen) ==
    IF fs = <<>> THEN seen
    ELSE NameOrder(Tail(fs),
                   IF \E i \in 1..Len(seen) : seen[i] = Head(fs).name
                   THEN seen ELSE Append(seen, Head(fs).name))

\* name_to_files[name]: one entry for each function of that name
FilesNamed(fs, name) ==
    LET named == SelectSeq(fs, LAMBDA f : f.name = name)
    IN [i \in 1..Len(named) |-> named[i].file]

\* sum(g.potential_savings for g in duplicates)
RECURSIVE SumSavings(_)
SumSavings(groups) ==
    IF groups = <<>> THEN 0 ELSE potential_savings(Head(groups)) + SumSavings(Tail(groups))

generate_recommendations(fs, groups) ==
    LET on_groups == IF groups # <<>>
                     THEN <<[kind |-> "duplicates", name |-> "", n |-> Len(groups),
                             savings |-> SumSavings(groups)]>>
                     ELSE <<>>
        flagged == SelectSeq(NameOrder(fs, <<>>),
                             LAMBDA name : /\ Len(FilesNamed(fs, name)) >= 3
                                           /\ name \notin Lifecycle)
    IN on_groups \o [i \in 1..Len(flagged) |->
                     [kind |-> "same_name", name |-> flagged[i],
                      n |-> Len(FilesNamed(fs, flagged[i])), savings |-> 0]]

(***************************************************************************)
(* Grouping a list of signatures                                           *)
(***************************************************************************)
MaxFuncs == 5       \* signatures handed to find_duplicates

BodyHashes == {"abc123", "def456"}
Thresholds == {0, 50, 80, 100}      \* similarity_threshold, in percent
LineCounts == {4, 5, 10}
MinLines == {5, 6}
Files == <<<<"dir1", "a.py">>, <<"dir1", "b.py">>, <<"dir2", "c.py">>>>
Names == <<"get_user", "fetch_user", "load_data">>
FileOf(i) == Files[((i - 1) % Len(Files)) + 1]
NameOf(i) == Names[((i - 1) % Len(Names)) + 1]

\* the signature at place i of the list: the i-th function found, which
\* starts at its own line
SignatureAt(i, body_hash, line_count) ==
    FunctionSignature(FileOf(i), NameOf(i), 20 * i, 20 * i + line_count - 1, <<"x">>,
                      body_hash, 1, line_count)

DupInit ==
    /\ functions = <<>>
    /\ min_lines = 0
    /\ duplicates = <<>>
    /\ report = <<>>
    /\ dpc = "input"
    /\ NormIdle
    /\ ExtractIdle
    /\ hashseed = 0
    /\ ScanIdle
    /\ RefactorIdle
    /\ RulesIdle

\* one more signature in the list of the functions found
AddFunction ==
    /\ dpc = "input"
    /\ Len(functions) < MaxFuncs
    /\ \E h \in BodyHashes, l \in LineCounts :
          functions' = Append(functions, SignatureAt(Len(functions) + 1, h, l))
    /\ UNCHANGED <<min_lines, duplicates, report, dpc, nvars, hashseed, xvars, svars, rvars, avars>>

\* duplicates = find_duplicates(functions, threshold, min_lines)
FindDuplicates ==
    /\ dpc = "input"
    /\ \E n \in MinLines, threshold \in Thresholds :
          /\ min_lines' = n
          /\ duplicates' = find_duplicates(functions, threshold, n)
    /\ dpc' = "found"
    /\ UNCHANGED <<functions, report, nvars, hashseed, xvars, svars, rvars, avars>>

\* the properties of each group, as format_project_analysis reads them
ReadGroups ==
    /\ dpc = "found"
    /\ report' = [i \in 1..Len(duplicates) |->
                    [count |-> count(duplicates[i]),
                     total_lines |-> total_lines(duplicates[i]),
                     potential_savings |-> potential_savings(duplicates[i])]]
    /\ dpc' = "reported"
    /\ UNCHANGED <<functions, min_lines, duplicates, nvars, hashseed, xvars, svars, rvars, avars>>

DupNext ==
    \/ AddFunction
    \/ FindDuplicates
    \/ ReadGroups

SpecDup == DupInit /\ [][DupNext]_vars

(***************************************************************************)
(* Grouping claims                                                         *)
(***************************************************************************)
Found == dpc \in {"found", "reported"}
Groups == {duplicates[i] : i \in 1..Len(duplicates)}
Members(g) == {g.functions[i] : i \in 1..Len(g.functions)}
Inputs == {functions[i] : i \in 1..Len(functions)}
HashClass(h) == SelectSeq(functions, LAMBDA f : f.body_hash = h /\ f.line_count >= min_lines)
\* the place of the first candidate with hash h in the input
FirstSeen(h) ==
    CHOOSE i \in 1..Len(functions) :
        /\ functions[i].body_hash = h /\ functions[i].line_count >= min_lines
        /\ \A j \in 1..(i - 1) :
              ~(functions[j].body_hash = h /\ functions[j].line_count >= min_lines)

\* C5: no signature with line_count < min_lines is a member of a group
\* returned by find_duplicates.
C5_ShortFunctionsNotGrouped ==
    Found => \A g \in Groups : \A f \in Members(g) : f.line_count >= min_lines

C5_Witness ==
    /\ Found
    /\ duplicates # <<>>
    /\ \E f \in Inputs :
          /\ f.line_count < min_lines
          /\ \E g \in Groups : g.functions[1].body_hash = f.body_hash

\* C6: every group returned by find_duplicates has at least two members; a
\* hash held by one candidate only yields no group.
C6_GroupsHaveTwoMembers ==
    Found =>
        /\ \A g \in Groups : count(g) >= 2
        /\ \A h \in BodyHashes :
              Len(HashClass(h)) = 1 => \A g \in Groups : g.functions[1].body_hash # h

C6_Witness ==
    /\ Found
    /\ duplicates # <<>>
    /\ \E h \in BodyHashes : Len(HashClass(h)) = 1

\* C7: the groups are exactly the hash classes of the candidates: a group
\* holds every candidate of one hash, in input order, and nothing else; no
\* two groups have the same hash or share a member; every hash with two or
\* more candidates has its group.
C7_GroupsAreHashClasses ==
    Found =>
        /\ \A g \in Groups : g.functions = HashClass(g.functions[1].body_hash)
        /\ \A i, j \in 1..Len(duplicates) :
              i # j =>
                 /\ duplicates[i].functions[1].body_hash # duplicates[j].functions[1].body_hash
                 /\ Members(duplicates[i]) \cap Members(duplicates[j]) = {}
        /\ \A h \in BodyHashes :
              Len(HashClass(h)) >= 2 => \E g \in Groups : g.functions[1].body_hash = h

C7_Witness ==
    /\ Found
    /\ Len(duplicates) = 2
    /\ \E g \in Groups : Cardinality({f.file : f \in Members(g)}) >= 2
    /\ \E f \in Inputs : f.line_count < min_lines

\* C8 as stated: total_lines is the sum of the members' line_count and
\* potential_savings is total_lines minus the average line_count (the exact
\* quotient total_lines / count) when count > 1.
C8_SavingsIsTotalMinusAverage ==
    dpc = "reported" =>
        \A i \in 1..Len(report) :
            /\ report[i].total_lines = SumLines(duplicates[i].functions)
            /\ report[i].count > 1 =>
                  report[i].potential_savings * report[i].count
                     = report[i].total_lines * report[i].count - report[i].total_lines

\* C8 amended: total_lines is the sum of the members' line_count and, when
\* count > 1, potential_savings is total_lines minus the average line_count
\* rounded down to an integer; members of one length L give (count - 1) * L.
C8_SavingsIsTotalMinusFloorAverage ==
    dpc = "reported" =>
        \A i \in 1..Len(report) :
            LET g == duplicates[i]
                total == SumLines(g.functions)
            IN /\ report[i].total_lines = total
               /\ report[i].count = Len(g.functions)
               /\ report[i].count > 1 =>
                     /\ report[i].potential_savings = total - (total \div Len(g.functions))
                     /\ \A l \in LineCounts :
                           (\A f \in Members(g) : f.line_count = l) =>
                               report[i].potential_savings = (Len(g.functions) - 1) * l

C8_Witness ==
    /\ dpc = "reported"
    /\ \E i \in 1..Len(report) :
          /\ report[i].count = 3
          /\ report[i].total_lines = 30
          /\ report[i].potential_savings = 20
    /\ \E i \in 1..Len(report) :
          /\ report[i].count = 2
          /\ report[i].total_lines = 15
          /\ report[i].potential_savings = 8

\* C9: the groups come in non-increasing order of count, and groups of equal
\* count in the order in which their hashes first occur among the candidates.
C9_GroupsSortedByCount ==
    Found =>
        \A i, j \in 1..Len(duplicates) :
            i < j =>
               /\ count(duplicates[i]) >= count(duplicates[j])
               /\ count(duplicates[i]) = count(duplicates[j]) =>
                     FirstSeen(duplicates[i].functions[1].body_hash)
                        < FirstSeen(duplicates[j].functions[1].body_hash)

C9_Witness ==
    /\ Found
    /\ Len(duplicates) = 2
    /\ count(duplicates[1]) = 3
    /\ FirstSeen(duplicates[2].functions[1].body_hash)
          < FirstSeen(duplicates[1].functions[1].body_hash)

C9_TieWitness ==
    /\ Found
    /\ Len(duplicates) = 2
    /\ count(duplicates[1]) = count(duplicates[2])

\* C21: the similarity threshold has no influence on the result: from the
\* same signatures and min_lines, find_duplicates returns the same groups for
\* every threshold from 0 to 1, and every group it returns has similarity 1.0.
C21_ThresholdHasNoInfluence ==
    Found =>
       /\ \A threshold \in Thresholds :
             find_duplicates(functions, threshold, min_lines) = duplicates
       /\ \A g \in Groups : g.similarity = 100

C21_Witness ==
    /\ Found
    /\ Len(duplicates) = 2
    /\ \E i, j \in 1..Len(functions) :
          /\ functions[i].body_hash # functions[j].body_hash
          /\ functions[i].line_count >= min_lines
          /\ functions[j].line_count >= min_lines

(***************************************************************************)
(* Grouping functions of chosen names and files                            *)
(***************************************************************************)
MaxMembers == 3     \* functions of one structural hash handed to find_duplicates

HashSeeds == {0, 1}
SuggestNames == {"get_user_data", "set_user_data", "getUser", "load_data"}
SuggestFiles == {<<"dir1", "a.py">>, <<"dir2", "c.py">>, <<"pkg", "dir1", "d.py">>, <<"e.py">>}

SuggestInit ==
    /\ functions = <<>>
    /\ min_lines = 0
    /\ duplicates = <<>>
    /\ report = <<>>
    /\ dpc = "input"
    /\ NormIdle
    /\ ExtractIdle
    /\ hashseed \in HashSeeds
    /\ ScanIdle
    /\ RefactorIdle
    /\ RulesIdle

\* one more function of the same structure, under some name in some file
AddNamed ==
    /\ dpc = "input"
    /\ Len(functions) < MaxMembers
    /\ \E name \in SuggestNames, file \in SuggestFiles :
          functions' = Append(functions,
                              FunctionSignature(file, name, 1, 5, <<"x">>, "abc123", 1, 5))
    /\ UNCHANGED <<min_lines, duplicates, report, dpc, nvars, hashseed, xvars, svars, rvars, avars>>

SuggestNext ==
    \/ AddNamed
    \/ FindDuplicates

SpecSuggest == SuggestInit /\ [][SuggestNext]_vars

(***************************************************************************)
(* Suggestion claims                                                       *)
(***************************************************************************)
\* the words of a name: a word ends at an underscore and before an
\* uppercase letter, and is written in lowercase
Words(name) == SplitWords(Chars(name), 1, <<>>, {})
CommonWords(g) == {w \in Words(g.functions[1].name) : \A f \in Members(g) : w \in Words(f.name)}
DirNames(g) == {PathName(Parent(f.file)) : f \in Members(g)}

\* C18: the suggested_name of a group is a longest word of the intersection
\* of its members' word sets when that intersection is not empty, and the
\* first member's name otherwise.
C18_SuggestedNameIsLongestCommonWord ==
    Found =>
        \A g \in Groups :
            IF CommonWords(g) # {}
            THEN /\ g.suggested_name \in CommonWords(g)
                 /\ \A w \in CommonWords(g) : Len(Chars(w)) <= Len(Chars(g.suggested_name))
            ELSE g.suggested_name = g.functions[1].name

C18_Witness ==
    /\ Found
    /\ \E g \in Groups :
          /\ count(g) = 3
          /\ \E f \in Members(g) : f.name = "getUser"
          /\ CommonWords(g) = {"get", "user"}
          /\ g.suggested_name = "user"

C18_TieWitness ==
    /\ Found
    /\ \E g \in Groups : CommonWords(g) = {"user", "data"} /\ g.suggested_name = "data"

C18_FallbackWitness ==
    /\ Found
    /\ \E g \in Groups : CommonWords(g) = {} /\ g.suggested_name = "load_data"

\* C19: the suggested_module of a group is <d>/utils.py when the directory
\* holding each member's file has one and the same name d, and otherwise
\* shared.py in the directory of the first member's file.
C19_SuggestedModule ==
    Found =>
        \A g \in Groups :
            IF \E d \in DirNames(g) : DirNames(g) = {d}
            THEN \E d \in DirNames(g) : g.suggested_module = <<d, "utils.py">>
            ELSE g.suggested_module = Parent(g.functions[1].file) \o <<"shared.py">>

C19_Witness ==
    /\ Found
    /\ \E g \in Groups :
          /\ {f.file : f \in Members(g)} = {<<"dir1", "a.py">>, <<"pkg", "dir1", "d.py">>}
          /\ g.suggested_module = <<"dir1", "utils.py">>

C19_SharedWitness ==
    /\ Found
    /\ \E g \in Groups :
          /\ g.functions[1].file = <<"pkg", "dir1", "d.py">>
          /\ g.functions[2].file = <<"dir2", "c.py">>
          /\ g.suggested_module = <<"pkg", "dir1", "shared.py">>

(***************************************************************************)
(* extract_functions_from_file                                             *)
(*                                                                         *)
(* A file is [path, status, tree, items]: status tells whether open/read   *)
(* and ast.parse succeed on it, tree is the Module that ast.parse returns, *)
(* and items[i] tells of the i-th top-level statement how many lines its   *)
(* definition takes (span) and whether it nests deeper than the            *)
(* interpreter's recursion limit allows copy.deepcopy and the visitor to   *)
(* descend (deep), so that hash_function_body raises RecursionError on the *)
(* definitions of that statement.                                          *)
(***************************************************************************)
MaxDefs == 3        \* statements at the top level of a file

\* def get_user_data(a): return a
GetUserData ==
    FuncDef("FunctionDef", "get_user_data", <<Arg("a", <<>>)>>, <<Return(Load("a"))>>)

\* def set_user_data(b): "s"; return b
SetUserData ==
    FuncDef("FunctionDef", "set_user_data", <<Arg("b", <<>>)>>,
            <<Expr(StrConst("s")), Return(Load("b"))>>)

\* def fetch_user(a, /, b, *r, c):
\*     async def get_user(a): "t"; return a
\*     return b
FetchUser ==
    FuncDefArgs("FunctionDef", "fetch_user",
                Arguments(<<Arg("a", <<>>)>>, <<Arg("b", <<>>)>>,
                          <<Arg("r", <<>>)>>, <<Arg("c", <<>>)>>),
                <<FuncDef("AsyncFunctionDef", "get_user", <<Arg("a", <<>>)>>,
                          <<Expr(StrConst("t")), Return(Load("a"))>>),
                  Return(Load("b"))>>)

\* class A: def __init__(self): pass
ClassA ==
    ClassDef("A", <<FuncDef("FunctionDef", "__init__", <<Arg("self", <<>>)>>, <<Pass>>)>>)

SampleStatements == {GetUserData, FetchUser, ClassA}
Spans == {1, 5}

SourceFile(path, status, statements, items) ==
    [path |-> path, status |-> status, tree |-> Module(statements), items |-> items]

\* a definition too deep to hash is a long one
ItemAttrs == {[span |-> n, deep |-> d] : n \in Spans, d \in BOOLEAN} \ {[span |-> 1, deep |-> TRUE]}

StatementLists(n) == [1..n -> SampleStatements \X ItemAttrs]

SourceFiles ==
    {SourceFile(<<"dir1", "a.py">>, st, <<>>, <<>>) : st \in {"unreadable", "syntax_error"}}
    \cup {SourceFile(<<"dir1", "a.py">>, "ok",
                     [i \in 1..Len(c) |-> c[i][1]], [i \in 1..Len(c) |-> c[i][2]]) :
            c \in UNION {StatementLists(n) : n \in 0..MaxDefs}}

\* the top-level statement that holds the node at path: Module.body[path[2]]
ItemOf(file, path) == file.items[path[2]]

\* node.lineno: a top-level statement starts at a line of its own, a
\* definition inside it on the next line
lineno(file, path) == IF Len(path) = 2 THEN 20 * path[2] ELSE 20 * path[2] + 1

\* node.end_lineno: a definition with an inner definition has a line before
\* and a line after it
end_lineno(file, path) ==
    LET first == 20 * path[2]
        span == ItemOf(file, path).span
        top == file.tree.c[1].c[path[2]]
    IN IF Len(path) > 2 THEN first + span
       ELSE IF Len(DefPaths(top)) > 1 THEN first + span + 1 ELSE first + span - 1

\* hash_function_body(node) raises RecursionError
Deep(file, path) == ItemOf(file, path).deep

\* mutant: the last line is not counted
LineCountExclusive(first, last) == last - first

\* line_count = node.end_lineno - node.lineno + 1; every node of a tree that
\* ast.parse returns has end_lineno
LineCount(first, last) == last - first + 1

\* mutant: a definition is hashed with the top-level statement around it
SignatureOfEnclosing(file, ast_tree, path) ==
    LET node == NodeAt(ast_tree, path)
        params == [i \in 1..Len(ArgsOf(node)) |-> ArgsOf(node)[i].a]
        line_count == LineCount(lineno(file, path), end_lineno(file, path))
    IN FunctionSignature(file.path, node.a, lineno(file, path), end_lineno(file, path),
                         params, hash_function_body(NodeAt(ast_tree, SubSeq(path, 1, 2))),
                         Len(params), line_count)

\* the FunctionSignature built in the loop body for the definition at path
SignatureOf(file, ast_tree, path) ==
    LET node == NodeAt(ast_tree, path)
        params == [i \in 1..Len(ArgsOf(node)) |-> ArgsOf(node)[i].a]
        line_count == LineCount(lineno(file, path), end_lineno(file, path))
    IN FunctionSignature(file.path, node.a, lineno(file, path), end_lineno(file, path),
                         params, hash_function_body(node), Len(params), line_count)

\* the loop over ast.walk(tree) from its k-th definition on; found is the
\* list `functions`; an exception ends the loop and the list is returned
RECURSIVE ExtractLoop(_, _, _, _)
ExtractLoop(file, ast_tree, k, found) ==
    LET paths == DefPaths(ast_tree)
    IN IF k > Len(paths) THEN found
       ELSE IF Deep(file, paths[k]) THEN found
       ELSE ExtractLoop(file,
                        ReplaceAt(ast_tree, paths[k],
                                  NodeAfterNormalize(NodeAt(ast_tree, paths[k]))),
                        k + 1,
                        Append(found, SignatureOf(file, ast_tree, paths[k])))

extract_functions_from_file(file) ==
    IF file.status # "ok" THEN <<>> ELSE ExtractLoop(file, file.tree, 1, <<>>)

ExtractInit ==
    /\ source \in SourceFiles
    /\ tree = Module(<<>>)
    /\ extracted = <<>>
    /\ walk = 0
    /\ returned = <<>>
    /\ xpc = "open"
    /\ NormIdle
    /\ DupIdle
    /\ hashseed = 0
    /\ ScanIdle
    /\ RefactorIdle
    /\ RulesIdle

\* with open(file_path) as f: source = f.read()
ReadSource ==
    /\ xpc = "open"
    /\ xpc' = IF source.status = "unreadable" THEN "except" ELSE "parse"
    /\ UNCHANGED <<source, tree, extracted, walk, returned, nvars, dvars, hashseed, svars, rvars, avars>>

\* tree = ast.parse(source)
ParseSource ==
    /\ xpc = "parse"
    /\ IF source.status = "syntax_error"
       THEN xpc' = "except" /\ UNCHANGED tree
       ELSE xpc' = "walk" /\ tree' = source.tree
    /\ UNCHANGED <<source, extracted, walk, returned, nvars, dvars, hashseed, svars, rvars, avars>>

\* one pass of the loop body on the next definition of the tree
ExtractDef ==
    /\ xpc = "walk"
    /\ walk < Len(DefPaths(tree))
    /\ LET path == DefPaths(tree)[walk + 1]
       IN IF Deep(source, path)
          THEN /\ xpc' = "except"
               /\ UNCHANGED <<tree, extracted, walk, svars, rvars, avars>>
          ELSE /\ tree' = ReplaceAt(tree, path, NodeAfterNormalize(NodeAt(tree, path)))
               /\ extracted' = Append(extracted, SignatureOf(source, tree, path))
               /\ walk' = walk + 1
               /\ xpc' = xpc
    /\ UNCHANGED <<source, returned, nvars, dvars, hashseed, svars, rvars, avars>>

\* ast.walk is exhausted
EndWalk ==
    /\ xpc = "walk"
    /\ walk = Len(DefPaths(tree))
    /\ xpc' = "return"
    /\ UNCHANGED <<source, tree, extracted, walk, returned, nvars, dvars, hashseed, svars, rvars, avars>>

\* except Exception: pass
SkipFile ==
    /\ xpc = "except"
    /\ xpc' = "return"
    /\ UNCHANGED <<source, tree, extracted, walk, returned, nvars, dvars, hashseed, svars, rvars, avars>>

\* return functions
ReturnFunctions ==
    /\ xpc = "return"
    /\ returned' = extracted
    /\ xpc' = "done"
    /\ UNCHANGED <<source, tree, extracted, walk, nvars, dvars, hashseed, svars, rvars, avars>>

ExtractNext ==
    \/ ReadSource
    \/ ParseSource
    \/ ExtractDef
    \/ EndWalk
    \/ SkipFile
    \/ ReturnFunctions

SpecExtract == ExtractInit /\ [][ExtractNext]_vars

(***************************************************************************)
(* Extraction claims                                                       *)
(***************************************************************************)
\* reading, parsing or the extraction of some definition fails on the file
Fails(file) ==
    \/ file.status # "ok"
    \/ \E i \in 1..Len(file.items) : file.items[i].deep

\* C10: when reading or parsing the file fails, or extraction fails at one
\* of its definitions, extract_functions_from_file returns the empty list.
C10_FailureYieldsEmptyList == (xpc = "done" /\ Fails(source)) => returned = <<>>

\* the loop of the model and the function computed in one piece agree
ExtractAgrees == xpc = "done" => returned = extract_functions_from_file(source)

\* the definitions of the file, in the order of ast.walk
Defs == DefPaths(source.tree)
DefNode(path) == NodeAt(source.tree, path)
ArgNames(args) == [i \in 1..Len(args) |-> args[i].a]
PosOnlyArgsOf(node) == node.c[1].c[1].c     \* node.args.posonlyargs

\* the signatures of `found` made for the definition at path: a definition
\* is known by its name and the line it starts at
SignaturesFor(found, path) ==
    {k \in 1..Len(found) : /\ found[k].name = DefNode(path).a
                           /\ found[k].start_line = lineno(source, path)}

OnePerDefinition ==
    LET defs == Defs
    IN /\ Len(returned) = Len(defs)
       /\ \A k \in 1..Len(defs) : Cardinality(SignaturesFor(returned, defs[k])) = 1

\* C14: extract_functions_from_file returns exactly one FunctionSignature
\* for every function or method definition of the file (sync and async,
\* methods, nested definitions), each with the definition's own name.
C14_OneSignaturePerDefinition ==
    (xpc = "done" /\ source.status = "ok") => OnePerDefinition

\* C14 holds on the files on which no definition fails to be hashed
C14_OneSignaturePerDefinitionUnlessFailure ==
    (xpc = "done" /\ ~Fails(source)) => OnePerDefinition

C14_NestedWitness ==
    /\ xpc = "done"
    /\ ~Fails(source)
    /\ \E i, j \in 1..Len(source.items) :
          source.tree.c[1].c[i] = FetchUser /\ source.tree.c[1].c[j] = ClassA
    /\ OnePerDefinition

\* C15: every FunctionSignature the extractor makes has line_count =
\* end_line - start_line + 1, where start_line and end_line are the first
\* and the last line (counted from 1) of the definition it was made for.
C15_LineCountIsInclusiveRange ==
    LET defs == Defs
    IN \A k \in 1..Len(extracted) :
          LET f == extracted[k]
          IN /\ f.line_count = f.end_line - f.start_line + 1
             /\ f.start_line >= 1
             /\ f.end_line >= f.start_line
             /\ f.start_line = lineno(source, defs[k])
             /\ f.end_line = end_lineno(source, defs[k])

C15_Witness ==
    /\ xpc = "done"
    /\ \E k \in 1..Len(returned) : returned[k].line_count = 1
    /\ \E k \in 1..Len(returned) : returned[k].name = "get_user" /\ returned[k].line_count = 5
    /\ \E k \in 1..Len(returned) : returned[k].name = "fetch_user" /\ returned[k].line_count = 7

\* C16: parameters is the sequence of the names of the positional
\* parameters of the definition in declaration order (positional-only ones
\* first, then the others; no *args, keyword-only or **kwargs name), and
\* parameter_count is its length.
C16_ParametersArePositionalNames ==
    \A k \in 1..Len(extracted) :
        LET f == extracted[k]
            node == DefNode(Defs[k])
        IN /\ f.parameters = ArgNames(PosOnlyArgsOf(node) \o ArgsOf(node))
           /\ f.parameter_count = Len(f.parameters)

\* C16 holds on the definitions without positional-only parameters
C16_ParametersWithoutPositionalOnly ==
    \A k \in 1..Len(extracted) :
        LET f == extracted[k]
            node == DefNode(Defs[k])
        IN PosOnlyArgsOf(node) = <<>> =>
              /\ f.parameters = ArgNames(ArgsOf(node))
              /\ f.parameter_count = Len(f.parameters)

FileOfOne(node) ==
    SourceFile(<<"dir2", "c.py">>, "ok", <<node>>, <<[span |-> 5, deep |-> FALSE]>>)

\* C27: the hash in the signature of a nested definition does not depend on
\* the function around it nor on the functions hashed before it: it is the
\* hash the same definition gets at the top level of a file, the numbering
\* of its names starting at var_0.
C27_NestedHashIsItsOwn ==
    LET defs == Defs
    IN \A k \in 1..Len(extracted) :
          Len(defs[k]) > 2 =>
             LET node == DefNode(defs[k])
                 alone == extract_functions_from_file(FileOfOne(node))
             IN /\ Len(alone) >= 1
                /\ alone[1].name = node.a
                /\ extracted[k].body_hash = alone[1].body_hash

C27_Witness ==
    /\ xpc = "done"
    /\ Len(returned) = 3
    /\ source.tree.c[1].c[2] = FetchUser
    /\ returned[1].name = "get_user_data"
    /\ returned[2].name = "fetch_user"
    /\ returned[3].name = "get_user"
    /\ returned[3].body_hash = hash_function_body(BodyOf(FetchUser)[1])
    /\ returned[3].body_hash # returned[2].body_hash

(***************************************************************************)
(* analyze_project, and handle_project_analysis of cli.py before it        *)
(*                                                                         *)
(* disk is what root_path names: nothing ("missing"), one file or a        *)
(* directory, with the files that root.rglob("*.py") yields in that order. *)
(***************************************************************************)
MaxFiles == 3       \* files under the root directory

Short == [span |-> 1, deep |-> FALSE]
Long == [span |-> 5, deep |-> FALSE]
LongDeep == [span |-> 5, deep |-> TRUE]

FileContent(status, statements, items) ==
    [status |-> status, statements |-> statements, items |-> items]

ScanContents ==
    {FileContent("unreadable", <<>>, <<>>),
     FileContent("syntax_error", <<>>, <<>>),
     FileContent("ok", <<GetUserData>>, <<Long>>),
     FileContent("ok", <<SetUserData, ClassA>>, <<Long, Long>>),
     FileContent("ok", <<GetUserData, GetUserData, GetUserData>>, <<Long, Long, Short>>),
     FileContent("ok", <<FetchUser, GetUserData>>, <<Long, LongDeep>>)}

FileWith(path, content) == SourceFile(path, content.status, content.statements, content.items)

ScanPath(i) == <<"proj", "pkg", "m" \o ToString(i) \o ".py">>

Roots ==
    {[path |-> <<"nowhere">>, kind |-> "missing", files |-> <<>>],
     [path |-> <<"notes.txt">>, kind |-> "file",
      files |-> <<SourceFile(<<"notes.txt">>, "syntax_error", <<>>, <<>>)>>]}
    \cup {[path |-> <<"a.py">>, kind |-> "file", files |-> <<FileWith(<<"a.py">>, c)>>] :
            c \in ScanContents}
    \cup {[path |-> <<"proj">>, kind |-> "dir",
           files |-> [i \in 1..Len(c) |-> FileWith(ScanPath(i), c[i])]] :
            c \in UNION {[1..n -> ScanContents] : n \in 0..MaxFiles}}

\* Path.suffix
Suffix(path) == IF PathName(path) = "notes.txt" THEN ".txt" ELSE ".py"

\* the exception the try block of extract_functions_from_file raises on a
\* file, "" when it raises none
RaisedOn(file) ==
    IF file.status = "unreadable" THEN "OSError"
    ELSE IF file.status = "syntax_error" THEN "SyntaxError"
    ELSE IF \E i \in 1..Len(file.items) : file.items[i].deep THEN "RecursionError"
    ELSE ""

\* mutant: except SyntaxError
CatchesSyntaxError(exc) == exc = "SyntaxError"

\* except Exception: the classes raised that derive from Exception
Catches(exc) == exc \in {"OSError", "SyntaxError", "RecursionError"}

ScanInit ==
    /\ disk \in Roots
    /\ \E n \in MinLines :
          scan_args = [root_path |-> disk.path, min_lines |-> n, similarity_threshold |-> 80]
    /\ python_files = <<>>
    /\ file_index = 0
    /\ all_functions = <<>>
    /\ analysis = ProjectAnalysis(<<>>, 0, 0, <<>>, <<>>)
    /\ earlier = <<>>
    /\ output = <<>>
    /\ spc = "start"
    /\ hashseed \in HashSeeds
    /\ NormIdle
    /\ DupIdle
    /\ ExtractIdle
    /\ RefactorIdle
    /\ RulesIdle

(***************************************************************************)
(* format_project_analysis and print_project_analysis                      *)
(*                                                                         *)
(* The report is the sequence of the lines joined by "\n"; a line is       *)
(* [text, args]: the f-string without its emoji, and the values it         *)
(* formats.                                                                *)
(***************************************************************************)
ReportLine(text, args) == [text |-> text, args |-> args]

RECURSIVE Flatten(_)
Flatten(seqs) == IF seqs = <<>> THEN <<>> ELSE Head(seqs) \o Flatten(Tail(seqs))

\* the lines of one group: its title, its members, and the suggestion
\* if group.suggested_name
GroupLines(i, group) ==
    <<ReportLine("Group {i}: {similarity:.0%} Similar ({count} functions)",
                 <<i, group.similarity, count(group)>>)>>
    \o [j \in 1..Len(group.functions) |->
          ReportLine("  * {file}:{name}() [lines {start_line}-{end_line}]",
                     <<group.functions[j].file, group.functions[j].name,
                       group.functions[j].start_line, group.functions[j].end_line>>)]
    \o (IF group.suggested_name # ""
        THEN <<ReportLine("  Suggestion: Extract to {suggested_module}",
                          <<group.suggested_module>>),
               ReportLine("     Potential savings: ~{potential_savings} lines",
                          <<potential_savings(group)>>)>>
        ELSE <<>>)

ReportHead(a) ==
    <<ReportLine("\n" \o "=*80", <<>>),
      ReportLine("PROJECT-LEVEL ANALYSIS", <<>>),
      ReportLine("=*80", <<>>),
      ReportLine("Root: {root_path}", <<a.root_path>>),
      ReportLine("Files Analyzed: {files_analyzed}", <<a.files_analyzed>>),
      ReportLine("Functions Found: {functions_found}", <<a.functions_found>>),
      ReportLine("-*80", <<>>)>>

ReportGroups(a) ==
    <<ReportLine("DUPLICATE CODE DETECTED ({n} groups):", <<Len(a.duplicates)>>),
      ReportLine("-*40", <<>>)>>
    \o Flatten([i \in 1..Len(a.duplicates) |-> GroupLines(i, a.duplicates[i])])

ReportRecommendations(a) ==
    IF a.recommendations # <<>>
    THEN <<ReportLine("\n" \o "-*40", <<>>), ReportLine("RECOMMENDATIONS:", <<>>)>>
         \o [i \in 1..Len(a.recommendations) |->
               ReportLine("  * {rec}", <<a.recommendations[i]>>)]
    ELSE <<>>

\* mutant: the report without the else branch of "if analysis.duplicates"
FormatWithoutVerdict(a) ==
    ReportHead(a)
    \o (IF a.duplicates # <<>> THEN ReportGroups(a) ELSE <<>>)
    \o ReportRecommendations(a)
    \o <<ReportLine("\n" \o "=*80", <<>>)>>

format_project_analysis(a) ==
    ReportHead(a)
    \o (IF a.duplicates # <<>>
        THEN ReportGroups(a)
        ELSE <<ReportLine("No duplicate code detected!", <<>>)>>)
    \o ReportRecommendations(a)
    \o <<ReportLine("\n" \o "=*80", <<>>)>>

\* handle_project_analysis: if not target_path.exists(): print, return
HandleMissingPath ==
    /\ spc = "start"
    /\ disk.kind = "missing"
    /\ output' = <<ReportLine("[ERROR] Path not found: {target_path}", <<disk.path>>)>>
    /\ spc' = "refused"
    /\ UNCHANGED <<scan_args, disk, python_files, file_index, all_functions, analysis,
                   earlier, hashseed, nvars, dvars, xvars, rvars, avars>>

\* analysis = ProjectAnalysis(root_path=root_path) and the list of files:
\* rglob yields nothing under a path that does not exist
ListFiles ==
    /\ spc = "start"
    /\ analysis' = ProjectAnalysis(scan_args.root_path, 0, 0, <<>>, <<>>)
    /\ python_files' = IF disk.kind = "file"
                       THEN IF Suffix(disk.path) = ".py" THEN disk.files ELSE <<>>
                       ELSE IF disk.kind = "dir" THEN disk.files ELSE <<>>
    /\ spc' = "extract"
    /\ UNCHANGED <<scan_args, disk, file_index, all_functions, earlier, output,
                   hashseed, nvars, dvars, xvars, rvars, avars>>

\* all_functions.extend(extract_functions_from_file(str(file_path)))
ExtractFile ==
    /\ spc = "extract"
    /\ file_index < Len(python_files)
    /\ LET file == python_files[file_index + 1]
       IN IF RaisedOn(file) # "" /\ ~Catches(RaisedOn(file))
          THEN /\ spc' = "raised"
               /\ UNCHANGED <<file_index, all_functions, rvars, avars>>
          ELSE /\ all_functions' = all_functions \o extract_functions_from_file(file)
               /\ file_index' = file_index + 1
               /\ spc' = spc
    /\ UNCHANGED <<scan_args, disk, python_files, analysis, earlier, output,
                   hashseed, nvars, dvars, xvars, rvars, avars>>

\* the counts and analysis.duplicates = find_duplicates(...)
FindGroups ==
    /\ spc = "extract"
    /\ file_index = Len(python_files)
    /\ analysis' = [analysis EXCEPT
                      !.files_analyzed = Len(python_files),
                      !.functions_found = Len(all_functions),
                      !.duplicates = find_duplicates(all_functions,
                                                     scan_args.similarity_threshold,
                                                     scan_args.min_lines)]
    /\ spc' = "recommend"
    /\ UNCHANGED <<scan_args, disk, python_files, file_index, all_functions, earlier,
                   output, hashseed, nvars, dvars, xvars, rvars, avars>>

\* analysis.recommendations = generate_recommendations(...); return analysis
Recommend ==
    /\ spc = "recommend"
    /\ analysis' = [analysis EXCEPT
                      !.recommendations =
                          generate_recommendations(all_functions, analysis.duplicates)]
    /\ spc' = "done"
    /\ UNCHANGED <<scan_args, disk, python_files, file_index, all_functions, earlier,
                   output, hashseed, nvars, dvars, xvars, rvars, avars>>

\* analyze_project is called once more with the same arguments on the same
\* disk, by a process with a hash seed of its own
ScanAgain ==
    /\ spc = "done"
    /\ earlier = <<>>
    /\ earlier' = <<[analysis |-> analysis, hashseed |-> hashseed]>>
    /\ hashseed' \in HashSeeds
    /\ python_files' = <<>>
    /\ file_index' = 0
    /\ all_functions' = <<>>
    /\ analysis' = ProjectAnalysis(<<>>, 0, 0, <<>>, <<>>)
    /\ spc' = "start"
    /\ UNCHANGED <<scan_args, disk, output, nvars, dvars, xvars, rvars, avars>>

\* handle_project_analysis: analysis = analyze_project(...);
\* print_project_analysis(analysis)
PrintAnalysis ==
    /\ spc = "done"
    /\ output' = format_project_analysis(analysis)
    /\ spc' = "printed"
    /\ UNCHANGED <<scan_args, disk, python_files, file_index, all_functions, analysis,
                   earlier, hashseed, nvars, dvars, xvars, rvars, avars>>

ScanNext ==
    \/ HandleMissingPath
    \/ ListFiles
    \/ ExtractFile
    \/ FindGroups
    \/ Recommend
    \/ ScanAgain
    \/ PrintAnalysis

SpecScan == ScanInit /\ [][ScanNext]_vars

(***************************************************************************)
(* Scan claims                                                             *)
(***************************************************************************)
\* a line of that text was printed
Printed(text) == \E i \in 1..Len(output) : output[i].text = text

\* the signatures the scan gathered from a file
FromFile(file) == SelectSeq(all_functions, LAMBDA f : f.file = file.path)

\* C11: on an existing root, whatever min_lines and the threshold,
\* analyze_project raises nothing and its loop takes the files one after the
\* other up to the last, although files cannot be read or parsed: these
\* files give no signature, they are counted in files_analyzed, and every
\* definition of the files that are extracted without failure gives one.
C11_ScanSurvivesBadFiles ==
    disk.kind # "missing" =>
        /\ spc # "raised"
        /\ file_index <= Len(python_files)
        /\ spc = "done" =>
              /\ analysis.files_analyzed = Len(python_files)
              /\ analysis.functions_found = Len(all_functions)
              /\ \A i \in 1..Len(python_files) :
                    LET file == python_files[i]
                    IN /\ file.status # "ok" => FromFile(file) = <<>>
                       /\ ~Fails(file) => Len(FromFile(file)) = Len(DefPaths(file.tree))

C11_Witness ==
    /\ spc = "done"
    /\ disk.kind = "dir"
    /\ Len(python_files) = 3
    /\ python_files[1].status = "unreadable"
    /\ python_files[2].status = "syntax_error"
    /\ python_files[3].status = "ok"
    /\ Len(FromFile(python_files[3])) = 3
    /\ analysis.files_analyzed = 3
    /\ analysis.duplicates # <<>>

\* a ProjectAnalysis as the scan of a directory without files returns it
OfEmptyProject(a) ==
    /\ a.files_analyzed = 0
    /\ a.functions_found = 0
    /\ a.duplicates = <<>>
    /\ a.recommendations = <<>>

\* C12: when root_path names nothing, the caller of the scan gets an error
\* result: not the ProjectAnalysis that an empty project gives.
C12_MissingRootIsAnError ==
    (disk.kind = "missing" /\ spc \in {"done", "refused"}) =>
        \/ Printed("[ERROR] Path not found: {target_path}")
        \/ ~OfEmptyProject(analysis)

\* handle_project_analysis tests the path itself and does not scan
C12_HandlerRefusesMissingRoot ==
    spc = "refused" =>
        /\ disk.kind = "missing"
        /\ Printed("[ERROR] Path not found: {target_path}")
        /\ python_files = <<>>

\* C13: two scans of the same input with the same arguments return the
\* same ProjectAnalysis.
C13_RescanIsIdentical ==
    (spc = "done" /\ earlier # <<>>) => analysis = earlier[1].analysis

\* the two scans agree when their processes have the same hash seed
C13_RescanIsIdenticalUnderOneSeed ==
    (spc = "done" /\ earlier # <<>> /\ earlier[1].hashseed = hashseed) =>
        analysis = earlier[1].analysis

C13_SameSeedWitness ==
    /\ spc = "done"
    /\ earlier # <<>>
    /\ earlier[1].hashseed = hashseed
    /\ analysis.duplicates # <<>>
    /\ analysis = earlier[1].analysis

\* the functions of a name, and whether a line of the recommendations is
\* about that name
Named(name) == {all_functions[i] : i \in {j \in 1..Len(all_functions) : all_functions[j].name = name}}
Flagged(name) ==
    \E i \in 1..Len(analysis.recommendations) :
        /\ analysis.recommendations[i].kind = "same_name"
        /\ analysis.recommendations[i].name = name

\* C20: the recommendations have a line for a name exactly when functions
\* of that name are in three or more distinct files, not all with one
\* structural hash, and the name is none of __init__, main, setup.
C20_SameNameInThreeFiles ==
    spc = "done" =>
        \A f \in Named("get_user_data") \cup Named("set_user_data") \cup Named("__init__")
                 \cup Named("fetch_user") \cup Named("get_user") :
            Flagged(f.name) <=>
                /\ Cardinality({g.file : g \in Named(f.name)}) >= 3
                /\ Cardinality({g.body_hash : g \in Named(f.name)}) >= 2
                /\ f.name \notin Lifecycle

\* what the code does: one entry of name_to_files for each function
C20_SameNameThreeTimes ==
    spc = "done" =>
        \A i \in 1..Len(all_functions) :
            LET name == all_functions[i].name
            IN Flagged(name) <=>
                  /\ Cardinality({j \in 1..Len(all_functions) : all_functions[j].name = name}) >= 3
                  /\ name \notin Lifecycle

\* three functions of one name in one file are reported as three files
C20_OneFileWitness ==
    /\ spc = "done"
    /\ Len(python_files) = 1
    /\ Flagged("get_user_data")

\* one name and one hash in three files is reported
C20_OneHashWitness ==
    /\ spc = "done"
    /\ Flagged("get_user_data")
    /\ Cardinality({g.file : g \in Named("get_user_data")}) = 3
    /\ Cardinality({g.body_hash : g \in Named("get_user_data")}) = 1

C20_LifecycleWitness ==
    /\ spc = "done"
    /\ Cardinality({g.file : g \in Named("__init__")}) = 3
    /\ ~Flagged("__init__")

\* no two candidates of the scan have one body hash
NoCollision ==
    LET candidates == Candidates(all_functions, scan_args.min_lines)
    IN \A i, j \in 1..Len(candidates) :
          candidates[i].body_hash = candidates[j].body_hash => i = j

\* a recommendation that tells of the absence of duplicates: one that is
\* neither the count of the groups nor a name met in several files
RecommendsNoDuplicates(a) ==
    \E i \in 1..Len(a.recommendations) :
        a.recommendations[i].kind \notin {"duplicates", "same_name"}

Least(S) == CHOOSE x \in S : \A y \in S : x <= y

\* the exception that open(file_path, "r", encoding="utf-8") and readlines
\* raise, "" for none
ReadError(file) ==
    IF file.status = "missing" THEN "FileNotFoundError"
    ELSE IF file.status = "undecodable" THEN "UnicodeDecodeError"
    ELSE ""

\* a line read in text mode with newline=None: "\r\n" is read as "\n"
Translated(line) == Line(line.text, IF line.eol = "CRLF" THEN "LF" ELSE line.eol)

readlines(file) == [i \in 1..Len(file.lines) |-> Translated(file.lines[i])]

\* a line written in text mode with newline=None: "\n" becomes os.linesep
Written(line, sep) == Line(line.text, IF line.eol = "LF" THEN sep ELSE line.eol)

\* if lines and not lines[-1].endswith("\n"): lines[-1] += "\n"
EnsureNewline(lines) ==
    IF lines # <<>> /\ lines[Len(lines)].eol = ""
    THEN [lines EXCEPT ![Len(lines)].eol = "LF"]
    ELSE lines

\* the place in a list of n items that a slice bound idx stands for
Clamp(idx, n) ==
    IF idx < 0 THEN (IF n + idx < 0 THEN 0 ELSE n + idx)
    ELSE IF idx > n THEN n ELSE idx

\* lines[:idx] and lines[idx:]
UpTo(lines, idx) == SubSeq(lines, 1, Clamp(idx, Len(lines)))
From(lines, idx) == SubSeq(lines, Clamp(idx, Len(lines)) + 1, Len(lines))

\* lines[idx] raises IndexError outside of -n .. n-1
InRange(lines, idx) == idx < Len(lines) /\ idx >= 0 - Len(lines)

\* a text with a lone surrogate, which str.encode("utf-8") refuses
BadText == "    return '<lone surrogate>'"
Unencodable == {BadText}

\* what writelines has handed to the file when the with block is left: all
\* lines, or those before the first one that cannot be encoded
EncodablePrefix(lines) ==
    LET bad == {i \in 1..Len(lines) : lines[i].text \in Unencodable}
    IN IF bad = {} THEN lines ELSE SubSeq(lines, 1, Least(bad) - 1)

\* apply_refactoring on the file that file_path names, on a host whose
\* os.linesep is sep: [success, error] and the file it leaves
apply_refactoring(file, original_function, refactored_code, start_line, end_line, sep) ==
    LET lines == readlines(file)
        start_idx == start_line - 1
        end_idx == end_line
        refactored_lines == EnsureNewline(refactored_code)
        new_lines == UpTo(lines, start_idx) \o refactored_lines \o From(lines, end_idx)
        handed == EncodablePrefix(new_lines)
        on_disk == [i \in 1..Len(handed) |-> Written(handed[i], sep)]
    IN IF ReadError(file) # ""
       THEN [success |-> FALSE, error |-> ReadError(file), file |-> file]
       ELSE IF ~InRange(lines, start_idx)
       THEN [success |-> FALSE, error |-> "IndexError", file |-> file]
       ELSE IF file.status = "readonly"
       THEN [success |-> FALSE, error |-> "PermissionError", file |-> file]
       ELSE IF handed # new_lines
       THEN [success |-> FALSE, error |-> "UnicodeEncodeError",
             file |-> [file EXCEPT !.lines = on_disk]]
       ELSE [success |-> TRUE, error |-> None, file |-> [file EXCEPT !.lines = on_disk]]

\* generate_diff: no text when the two codes have the same lines, else the
\* unified diff of the two, which the two file names and the two codes fix
generate_diff(original, refactored, file_path) ==
    IF EnsureNewline(original) = EnsureNewline(refactored) THEN <<>>
    ELSE <<<<"a/", file_path>>, <<"b/", file_path>>,
           EnsureNewline(original), EnsureNewline(refactored)>>

\* Path.stem
Stem(path) == IF PathName(path) = "m.py" THEN "m" ELSE PathName(path)

\* backup_dir / relative_dir / f"{stem}_{timestamp}{suffix}"
BackupDirOf(file_path, backup_dir) ==
    IF Len(file_path) >= 2 THEN backup_dir \o <<PathName(Parent(file_path))>> ELSE backup_dir
BackupFile(file_path, backup_dir, timestamp) ==
    BackupDirOf(file_path, backup_dir)
        \o <<Stem(file_path) \o "_" \o ToString(timestamp) \o Suffix(file_path)>>

\* shutil.copy2 into the backup directory: a file of that path is replaced
Put(files, path, lines) ==
    {b \in files : b.path # path} \cup {[path |-> path, lines |-> lines]}

\* create_backup at the second timestamp: the exception it raises ("" for
\* none), the path it returns and the backup directory it leaves
create_backup(file, backup_dir, timestamp, store) ==
    LET backup_file == BackupFile(file.path, backup_dir, timestamp)
        made == store.dirs \cup {backup_dir, BackupDirOf(file.path, backup_dir)}
    IN IF store.status = "readonly"
       THEN [raised |-> "PermissionError", path |-> NoPath, store |-> store]
       ELSE IF file.status = "missing"
       THEN [raised |-> "FileNotFoundError", path |-> NoPath,
             store |-> [store EXCEPT !.dirs = made]]
       ELSE [raised |-> "", path |-> backup_file,
             store |-> [store EXCEPT !.dirs = made,
                                     !.files = Put(@, backup_file, file.lines)]]

\* mutant: the file stays as the failed attempt left it
RollbackNothing(file, backup_path, store) ==
    [success |-> FALSE, error |-> "Backup file not found", file |-> file]

\* rollback_file: [success, error] and the file it leaves
rollback_file(file, backup_path, store) ==
    IF ~\E b \in store.files : b.path = backup_path
    THEN [success |-> FALSE, error |-> "Backup file not found", file |-> file]
    ELSE IF file.status = "readonly"
    THEN [success |-> FALSE, error |-> "PermissionError", file |-> file]
    ELSE LET b == CHOOSE b \in store.files : b.path = backup_path
         IN [success |-> TRUE, error |-> None,
             file |-> [file EXCEPT !.lines = b.lines,
                                   !.status = IF @ = "missing" THEN "ok" ELSE @]]

\* mutant: the summary names the backup directory of a dry run too
SummaryBackupDirOfDryRun(backup_dir, create_backups, dry_run) ==
    IF create_backups THEN backup_dir ELSE NoPath

\* backup_dir if create_backups and not dry_run else None
SummaryBackupDir(backup_dir, create_backups, dry_run) ==
    IF create_backups /\ ~dry_run THEN backup_dir ELSE NoPath

\* the RefactorResult that process_single_refactoring makes of an AI result
ResultOf(ai_result) ==
    RefactorResult(ai_result.issue.file, ai_result.issue.function_name,
                   ai_result.original_function_code, ai_result.suggestion.refactored_code,
                   ai_result.issue.start_line, ai_result.issue.end_line)

\* process_single_refactoring(ai_result, dry_run=True), called for an AI
\* result that has refactored code: the result with its diff
Preview(ai_result) ==
    [ResultOf(ai_result) EXCEPT
        !.diff = generate_diff(ai_result.original_function_code,
                               ai_result.suggestion.refactored_code, ai_result.issue.file)]

(***************************************************************************)
(* The files and the AI results handed to auto_refactor                    *)
(***************************************************************************)
MaxResults == 2     \* AI results in ai_summary.results
MaxClock == 1       \* seconds that pass during one run

SourcePath == <<"src", "pkg", "m.py">>
DefaultBackupDir == <<".auto-refactor-backup">>

\* f on the lines 1-2, g on the lines 3-4 and h on the line 5
SourceTexts == <<"def f():", "    return 1", "def g():", "    return 2", "def h(): pass">>

\* the file with one terminator on every line, but perhaps on the last
FileLines(eol, final) ==
    [i \in 1..Len(SourceTexts) |->
        Line(SourceTexts[i], IF i = Len(SourceTexts) /\ ~final THEN "" ELSE eol)]

NoCode == <<>>
FShort == <<Line("f = int", "")>>
FLong == <<Line("def f():", "LF"), Line("    a = 1", "LF"), Line("    return a", "LF")>>
FBad == <<Line("def f():", "LF"), Line(BadText, "LF")>>
GNew == <<Line("def g():", "LF"), Line("    return 3", "LF")>>
HNew == <<Line("def h(): return 0", "LF")>>

\* extract_function_source: "".join(lines[start_line - 1 : end_line])
extract_function_source(lines, start_line, end_line) ==
    SubSeq(lines, Clamp(start_line - 1, Len(lines)) + 1, Clamp(end_line, Len(lines)))

\* the AI result on the function of the lines start_line..end_line, made
\* when the file had the lines of FileLines("LF", TRUE)
AIResult(name, start_line, end_line, code) ==
    [issue |-> [file |-> SourcePath, function_name |-> name,
                start_line |-> start_line, end_line |-> end_line],
     suggestion |-> [refactored_code |-> code],
     original_function_code |->
         extract_function_source(FileLines("LF", TRUE), start_line, end_line)]

AIResults ==
    {AIResult("f", 1, 2, code) : code \in {NoCode, FShort, FLong, FBad}}
    \cup {AIResult("g", 3, 4, GNew), AIResult("h", 5, 5, HNew)}

\* the file and the backup directory at the time of the run
RefactorDisks ==
    {[file |-> [path |-> SourcePath, status |-> st, lines |-> FileLines("LF", TRUE)],
      store |-> [status |-> "ok", dirs |-> {}, files |-> {}]] :
        st \in {"ok", "readonly", "undecodable"}}
    \cup {[file |-> [path |-> SourcePath, status |-> "missing", lines |-> <<>>],
           store |-> [status |-> "ok", dirs |-> {}, files |-> {}]],
          [file |-> [path |-> SourcePath, status |-> "ok", lines |-> FileLines("LF", TRUE)],
           store |-> [status |-> "readonly", dirs |-> {}, files |-> {}]]}

RefactorInit ==
    /\ ai_results \in UNION {[1..n -> AIResults] : n \in 0..MaxResults}
    /\ options \in [dry_run : BOOLEAN, interactive : BOOLEAN,
                    backup_dir : {DefaultBackupDir}, create_backups : BOOLEAN]
    /\ \E d \in RefactorDisks : rfile = d.file /\ backups = d.store
    /\ linesep = "LF"
    /\ now = 0
    /\ summary = RefactorSummary(<<>>, SummaryBackupDir(options.backup_dir,
                                                        options.create_backups,
                                                        options.dry_run),
                                 options.dry_run)
    /\ ai_index = 0
    /\ result = RefactorResult(<<>>, "", <<>>, <<>>, 0, 0)
    /\ entry = [path |-> <<>>, status |-> "missing", lines |-> <<>>]
    /\ called = 0
    /\ ret = [success |-> FALSE, error |-> None]
    /\ rpc = "loop"
    /\ NormIdle
    /\ DupIdle
    /\ hashseed = 0
    /\ ExtractIdle
    /\ ScanIdle
    /\ RulesIdle

\* the AI result that the loop of auto_refactor is at
InLoop == rpc = "loop" /\ ai_index < Len(ai_results)
ai_result == ai_results[ai_index + 1]
HasCode(r) == r.suggestion.refactored_code # NoCode

\* summary.results.append(r); continue
Appended(r) ==
    /\ summary' = [summary EXCEPT !.results = Append(@, r)]
    /\ ai_index' = ai_index + 1
    /\ rpc' = "loop"

\* if not ai_result.suggestion.refactored_code: the result with an error
SkipNoCode ==
    /\ InLoop
    /\ ~HasCode(ai_result)
    /\ Appended([ResultOf(ai_result) EXCEPT !.refactored_code = NoCode,
                                            !.error = "No refactored code available"])
    /\ UNCHANGED <<ai_results, options, rfile, backups, linesep, now, result, entry,
                   called, ret, nvars, dvars, hashseed, xvars, svars, avars>>

\* if dry_run: the preview is the result
ShowDiff ==
    /\ InLoop
    /\ HasCode(ai_result)
    /\ options.dry_run
    /\ Appended(Preview(ai_result))
    /\ UNCHANGED <<ai_results, options, rfile, backups, linesep, now, result, entry,
                   called, ret, nvars, dvars, hashseed, xvars, svars, avars>>

\* prompt_for_approval returns False: result.skipped = True
Decline ==
    /\ InLoop
    /\ HasCode(ai_result)
    /\ ~options.dry_run
    /\ options.interactive
    /\ Appended([Preview(ai_result) EXCEPT !.skipped = TRUE])
    /\ UNCHANGED <<ai_results, options, rfile, backups, linesep, now, result, entry,
                   called, ret, nvars, dvars, hashseed, xvars, svars, avars>>

\* prompt_for_approval raises KeyboardInterrupt: break, return summary
Quit ==
    /\ InLoop
    /\ HasCode(ai_result)
    /\ ~options.dry_run
    /\ options.interactive
    /\ rpc' = "returned"
    /\ UNCHANGED <<ai_results, options, rfile, backups, linesep, now, summary, ai_index,
                   result, entry, called, ret, nvars, dvars, hashseed, xvars, svars,
                   avars>>

\* the refactoring is approved, or nobody is asked:
\* process_single_refactoring(ai_result, dry_run=False, backup_dir) begins
Begin ==
    /\ InLoop
    /\ HasCode(ai_result)
    /\ ~options.dry_run
    /\ result' = Preview(ai_result)
    /\ entry' = rfile
    /\ called' = ai_index + 1
    /\ rpc' = IF options.create_backups /\ options.backup_dir # NoPath
              THEN "backup" ELSE "apply"
    /\ UNCHANGED <<ai_results, options, rfile, backups, linesep, now, summary, ai_index,
                   ret, nvars, dvars, hashseed, xvars, svars, avars>>

\* result.backup_path = create_backup(...), at the second the clock shows
\* then; except Exception: the result with an error is returned
CreateBackup ==
    /\ rpc = "backup"
    /\ \E t \in {now, now + 1} :
          /\ t <= MaxClock
          /\ now' = t
          /\ LET b == create_backup(rfile, options.backup_dir, t, backups)
             IN /\ backups' = b.store
                /\ IF b.raised # ""
                   THEN /\ result' = [result EXCEPT !.error = "Failed to create backup"]
                        /\ Appended(result')
                   ELSE /\ result' = [result EXCEPT !.backup_path = b.path]
                        /\ rpc' = "apply"
                        /\ UNCHANGED <<summary, ai_index>>
    /\ UNCHANGED <<ai_results, options, rfile, linesep, entry, called, ret,
                   nvars, dvars, hashseed, xvars, svars, avars>>

\* success, error = apply_refactoring(...)
Apply ==
    /\ rpc = "apply"
    /\ LET r == apply_refactoring(rfile, result.original_code, result.refactored_code,
                                  result.start_line, result.end_line, linesep)
       IN /\ rfile' = r.file
          /\ ret' = [success |-> r.success, error |-> r.error]
          /\ IF r.success
             THEN /\ result' = [result EXCEPT !.applied = TRUE]
                  /\ Appended(result')
             ELSE /\ result' = [result EXCEPT !.error = r.error]
                  /\ IF result.backup_path # NoPath
                     THEN rpc' = "rollback" /\ UNCHANGED <<summary, ai_index>>
                     ELSE Appended(result')
    /\ UNCHANGED <<ai_results, options, backups, linesep, now, entry, called,
                   nvars, dvars, hashseed, xvars, svars, avars>>

\* rollback_file(ai_result.issue.file, result.backup_path); return result
Rollback ==
    /\ rpc = "rollback"
    /\ rfile' = rollback_file(rfile, result.backup_path, backups).file
    /\ Appended(result)
    /\ UNCHANGED <<ai_results, options, backups, linesep, now, result, entry, called,
                   ret, nvars, dvars, hashseed, xvars, svars, avars>>

\* the loop is over: return summary
ReturnSummary ==
    /\ rpc = "loop"
    /\ ai_index = Len(ai_results)
    /\ rpc' = "returned"
    /\ UNCHANGED <<ai_results, options, rfile, backups, linesep, now, summary, ai_index,
                   result, entry, called, ret, nvars, dvars, hashseed, xvars, svars,
                   avars>>

RefactorNext ==
    \/ SkipNoCode
    \/ ShowDiff
    \/ Decline
    \/ Quit
    \/ Begin
    \/ CreateBackup
    \/ Apply
    \/ Rollback
    \/ ReturnSummary

SpecRefactor == RefactorInit /\ [][RefactorNext]_vars

(***************************************************************************)
(* Refactoring claims                                                      *)
(***************************************************************************)
Results == {summary.results[i] : i \in 1..Len(summary.results)}

\* C22: a dry run of auto_refactor modifies no source file and creates no
\* backup file, whatever the AI results are; every RefactorResult it returns
\* has applied = False, the summary has dry_run = True and backup_dir = None,
\* and it holds one result for each AI result.
C22_DryRunChangesNothing ==
    /\ [][options.dry_run => rfile' = rfile /\ backups' = backups]_vars
    /\ [](options.dry_run =>
            /\ \A r \in Results : ~r.applied
            /\ summary.dry_run
            /\ summary.backup_dir = NoPath
            /\ rpc = "returned" =>
                  /\ Len(summary.results) = Len(ai_results)
                  /\ \A i \in 1..Len(ai_results) :
                        summary.results[i].function_name
                           = ai_results[i].issue.function_name)

C22_Witness ==
    /\ options.dry_run
    /\ options.create_backups
    /\ options.interactive
    /\ rpc = "returned"
    /\ Len(summary.results) = 2
    /\ summary.results[1].diff # <<>>
    /\ summary.results[2].error = "No refactored code available"
    /\ rfile.status = "ok"

\* process_single_refactoring(dry_run=False) has returned, and result is
\* what it returned; entry is the file as it was when it was called
Processed == called > 0 /\ rpc \in {"loop", "returned"}

\* the lines start_line..end_line of the file at the time of the call
LinesAtEntry == extract_function_source(readlines(entry), result.start_line, result.end_line)

\* an earlier result of the same run was applied
AppliedBefore == \E i \in 1..(called - 1) : summary.results[i].applied

\* C29: every suggestion that a non-dry run applies replaces the lines that
\* hold its original function code at the moment of the application, also
\* when an earlier suggestion was applied to the same file.
C29_ReplacesOriginalCode ==
    (Processed /\ result.applied) => LinesAtEntry = result.original_code

\* an application to the file as it was when the functions were analysed
\* replaces the lines of its function
C29_ReplacesOriginalCodeOfUnchangedFile ==
    (Processed /\ result.applied /\ entry.lines = FileLines("LF", TRUE)) =>
        LinesAtEntry = result.original_code

\* a second application on lines that an earlier one has moved
C29_ShiftedWitness ==
    /\ Processed
    /\ result.applied
    /\ AppliedBefore
    /\ Len(entry.lines) # Len(SourceTexts)
    /\ LinesAtEntry # result.original_code

\* the backup that result.backup_path names
BackupOf(r) == {b \in backups.files : b.path = r.backup_path}

\* C30: with a backup directory, the backup is made before the file is
\* modified (when apply_refactoring is called the file is as it was and the
\* backup holds its lines); a failed backup leaves the file as it was, with
\* an error and applied = False; whenever the call returns applied = False
\* the file is what it was before the call, and the result has an error.
C30_UnappliedLeavesFile ==
    /\ rpc = "backup" => rfile = entry
    /\ (rpc = "apply" /\ options.create_backups) =>
          /\ rfile = entry
          /\ result.backup_path # NoPath
          /\ \E b \in BackupOf(result) : b.lines = entry.lines
    /\ (Processed /\ result.error = "Failed to create backup") =>
          /\ ~result.applied
          /\ result.backup_path = NoPath
    /\ (Processed /\ options.create_backups /\ ~result.applied) =>
          /\ rfile = entry
          /\ result.error # None

\* an application that failed after it had written to the file, and the
\* file as it was before
C30_Witness ==
    /\ Processed
    /\ options.create_backups
    /\ result.backup_path # NoPath
    /\ ~result.applied
    /\ result.error = "UnicodeEncodeError"
    /\ rfile = entry

\* a backup that could not be made
C30_BackupFailedWitness ==
    /\ Processed
    /\ result.error = "Failed to create backup"
    /\ rfile = entry

\* without a backup directory the failed application stays in the file
C30_NoBackupWitness ==
    /\ Processed
    /\ ~options.create_backups
    /\ ~result.applied
    /\ rfile # entry

(***************************************************************************)
(* apply_refactoring called on its own                                     *)
(***************************************************************************)
Eols == {"LF", "CRLF"}

\* the files apply_refactoring is called on
ApplyFiles ==
    {[path |-> SourcePath, status |-> st, lines |-> FileLines(eol, final)] :
        st \in {"ok", "readonly", "undecodable"}, eol \in Eols, final \in BOOLEAN}
    \cup {[path |-> SourcePath, status |-> "missing", lines |-> <<>>]}

\* the calls: a range that begins at a line of the file or at the line
\* after its last, and a code
ApplyCalls ==
    {AIResult("f", s, e, code) :
        s \in 1..Len(SourceTexts) + 1, e \in 1..Len(SourceTexts) + 1,
        code \in {NoCode, FShort, FLong, FBad}}

ApplyInit ==
    /\ rfile \in ApplyFiles
    /\ linesep \in Eols
    /\ \E call \in ApplyCalls :
          /\ call.issue.start_line <= call.issue.end_line
          /\ ai_results = <<call>>
    /\ options = [dry_run |-> FALSE, interactive |-> FALSE, backup_dir |-> NoPath,
                  create_backups |-> FALSE]
    /\ backups = [status |-> "ok", dirs |-> {}, files |-> {}]
    /\ now = 0
    /\ summary = RefactorSummary(<<>>, NoPath, FALSE)
    /\ ai_index = 0
    /\ result = RefactorResult(<<>>, "", <<>>, <<>>, 0, 0)
    /\ entry = [path |-> <<>>, status |-> "missing", lines |-> <<>>]
    /\ called = 0
    /\ ret = [success |-> FALSE, error |-> None]
    /\ rpc = "call"
    /\ NormIdle
    /\ DupIdle
    /\ hashseed = 0
    /\ ExtractIdle
    /\ ScanIdle
    /\ RulesIdle

\* apply_refactoring(file_path, original_function, refactored_code,
\*                   start_line, end_line)
CallApply ==
    /\ rpc = "call"
    /\ LET call == ai_results[1]
           r == apply_refactoring(rfile, call.original_function_code,
                                  call.suggestion.refactored_code,
                                  call.issue.start_line, call.issue.end_line, linesep)
       IN /\ rfile' = r.file
          /\ ret' = [success |-> r.success, error |-> r.error]
    /\ entry' = rfile
    /\ called' = 1
    /\ rpc' = "called"
    /\ UNCHANGED <<ai_results, options, backups, linesep, now, summary, ai_index,
                   result, nvars, dvars, hashseed, xvars, svars, avars>>

SpecApply == ApplyInit /\ [][CallApply]_vars

(***************************************************************************)
(* Claims on apply_refactoring                                             *)
(***************************************************************************)
Readable(file) == file.status \in {"ok", "readonly"}

\* the lines start_line..end_line of a file replaced by the lines of a code
Replaced(lines, start_line, end_line, code) ==
    SubSeq(lines, 1, start_line - 1) \o EnsureNewline(code)
        \o SubSeq(lines, end_line + 1, Len(lines))

ReplacedRange ==
    LET call == ai_results[1]
    IN rfile.lines = Replaced(entry.lines, call.issue.start_line, call.issue.end_line,
                              call.suggestion.refactored_code)

\* C23: apply_refactoring on a readable file replaces the lines
\* start_line..end_line (counted from 1, both included) by the lines of the
\* new code, leaves every line before and after them as it was and returns
\* (True, None); when it fails it returns (False, message).
C23_ApplyReplacesRange ==
    (rpc = "called" /\ Readable(entry)) =>
        IF ret.success THEN ReplacedRange /\ ret.error = None
        ELSE ret.error # None

\* the same on a file whose lines end as the host writes them
C23_ApplyReplacesRangeOfHostFile ==
    (/\ rpc = "called"
     /\ Readable(entry)
     /\ \A i \in 1..Len(entry.lines) : entry.lines[i].eol \in {linesep, ""}
     /\ linesep = "LF") =>
        IF ret.success THEN ReplacedRange /\ ret.error = None
        ELSE ret.error # None

C23_CrlfWitness ==
    /\ rpc = "called"
    /\ ret.success
    /\ linesep = "LF"
    /\ entry.lines[5].eol = "CRLF"
    /\ rfile.lines[Len(rfile.lines)].eol = "LF"
    /\ ai_results[1].issue.start_line = 1
    /\ ai_results[1].issue.end_line = 2

(***************************************************************************)
(* analyzer.py: the three style rules                                      *)
(*                                                                         *)
(* The function handed to a rule is [name, lineno, end_lineno, args, body], *)
(* args being node.args with its lists and its two optional names, and     *)
(* body the list of the statements of the function.                        *)
(***************************************************************************)
MaxMeasure == 7     \* lines of a function, levels of nesting
MaxArgs == 4        \* names in node.args.args

Limits == {1, 2, 3}     \* max_length, max_params, max_depth

Greatest(S) == CHOOSE x \in S : \A y \in S : x >= y

\* the classes NestingVisitor has a visit method for
Nesting == {"If", "For", "While", "With"}

\* NestingVisitor: the greatest current_depth met at or below a node that is
\* visited at current_depth, 0 if no statement of the four classes is met
RECURSIVE NestingVisitor(_, _)
NestingVisitor(node, current_depth) ==
    LET here == IF node.k \in Nesting THEN current_depth + 1 ELSE current_depth
    IN Greatest({IF node.k \in Nesting THEN here ELSE 0}
                \cup {NestingVisitor(node.c[i], here) : i \in 1..Len(node.c)})

\* mutant: the limits are reached at equality
SeverityFrom(v, m) ==
    IF v >= m * 2 THEN "CRITICAL"
    ELSE IF 2 * v >= 3 * m THEN "WARN"
    ELSE "INFO"

\* if v > m * 2: CRITICAL; elif v > m * 1.5: WARN; else: INFO.  v and m are
\* integers: v > m * 1.5 is 2 * v > 3 * m
Severity(v, m) ==
    IF v > m * 2 THEN "CRITICAL"
    ELSE IF 2 * v > 3 * m THEN "WARN"
    ELSE "INFO"

Issue(severity, node, path, rule_name, details) ==
    [severity |-> severity, file |-> path, function_name |-> node.name,
     start_line |-> node.lineno, end_line |-> node.end_lineno,
     rule_name |-> rule_name, message |-> <<node.name, details>>, details |-> details]

\* the rules return an Issue or None: a list of one Issue or of none
check_function_length(node, path, max_length) ==
    LET length == node.end_lineno - node.lineno + 1
    IN IF length > max_length
       THEN <<Issue(Severity(length, max_length), node, path, "function-too-long",
                    [length |-> length, max_length |-> max_length])>>
       ELSE <<>>

check_too_many_parameters(node, path, max_params) ==
    LET param_count == Len(node.args.args) + Len(node.args.kwonlyargs)
                          + (IF node.args.vararg # <<>> THEN 1 ELSE 0)
                          + (IF node.args.kwarg # <<>> THEN 1 ELSE 0)
    IN IF param_count > max_params
       THEN <<Issue(Severity(param_count, max_params), node, path, "too-many-parameters",
                    [param_count |-> param_count, max_params |-> max_params])>>
       ELSE <<>>

check_deep_nesting(node, path, max_depth) ==
    LET depth == NestingVisitor(List(node.body), 0)
    IN IF depth > max_depth
       THEN <<Issue(Severity(depth, max_depth), node, path, "deep-nesting",
                    [nesting_depth |-> depth, max_depth |-> max_depth])>>
       ELSE <<>>

(***************************************************************************)
(* The functions handed to the rules                                       *)
(***************************************************************************)
Params(n) == [i \in 1..n |-> Arg("p" \o ToString(i), <<>>)]

RuleArgs(posonlyargs, args, vararg, kwonlyargs, kwarg) ==
    [posonlyargs |-> posonlyargs, args |-> args, vararg |-> vararg,
     kwonlyargs |-> kwonlyargs, kwarg |-> kwarg]

RuleNode(name, first, last, args, body) ==
    [name |-> name, lineno |-> first, end_lineno |-> last, args |-> args, body |-> body]

\* statements nested depth deep, of the four classes in turn
NestingAt(depth) == <<"If", "For", "While", "With">>[(depth % 4) + 1]
RECURSIVE Nested(_)
Nested(depth) ==
    IF depth = 0 THEN <<Pass>> ELSE <<Ctl(NestingAt(depth), Load("a"), Nested(depth - 1))>>

RuleNodes ==
    {RuleNode("f", 10, 10 + n - 1, RuleArgs(<<>>, <<>>, <<>>, <<>>, <<>>), <<Pass>>) :
        n \in 1..MaxMeasure}
    \cup {RuleNode("f", 10, 11, RuleArgs(Params(p), Params(n), v, Params(k), w), <<Pass>>) :
            p \in 0..1, n \in 0..MaxArgs, v \in {<<>>, <<"args">>}, k \in 0..1,
            w \in {<<>>, <<"kwargs">>}}
    \cup {RuleNode("f", 10, 11, RuleArgs(<<>>, <<>>, <<>>, <<>>, <<>>), body) :
            body \in {Nested(d) : d \in 0..MaxMeasure}
                     \cup {<<Try(Nested(d), <<>>)>> : d \in 0..MaxMeasure}}

RulesInit ==
    /\ \E node \in RuleNodes, m \in Limits :
          checked = [rule |-> "none", node |-> node, limit |-> m]
    /\ issue = <<>>
    /\ NormIdle
    /\ DupIdle
    /\ hashseed = 0
    /\ ExtractIdle
    /\ ScanIdle
    /\ RefactorIdle

\* issue = check_function_length(node, path, max_function_length)
CheckLength ==
    /\ checked.rule = "none"
    /\ checked' = [checked EXCEPT !.rule = "function-too-long"]
    /\ issue' = check_function_length(checked.node, SourcePath, checked.limit)
    /\ UNCHANGED <<nvars, dvars, hashseed, xvars, svars, rvars>>

\* issue = check_too_many_parameters(node, path, max_parameters)
CheckParameters ==
    /\ checked.rule = "none"
    /\ checked' = [checked EXCEPT !.rule = "too-many-parameters"]
    /\ issue' = check_too_many_parameters(checked.node, SourcePath, checked.limit)
    /\ UNCHANGED <<nvars, dvars, hashseed, xvars, svars, rvars>>

\* issue = check_deep_nesting(node, path, max_nesting_depth)
CheckNesting ==
    /\ checked.rule = "none"
    /\ checked' = [checked EXCEPT !.rule = "deep-nesting"]
    /\ issue' = check_deep_nesting(checked.node, SourcePath, checked.limit)
    /\ UNCHANGED <<nvars, dvars, hashseed, xvars, svars, rvars>>

RulesNext ==
    \/ CheckLength
    \/ CheckParameters
    \/ CheckNesting

SpecRules == RulesInit /\ [][RulesNext]_vars

(***************************************************************************)
(* Claims on the style rules                                               *)
(***************************************************************************)
\* the depth of the deepest statement of the four classes, counted from the
\* statements of the function
RECURSIVE DeepestIn(_)
DeepestIn(body) ==
    Greatest({0} \cup {IF body[i].k \in Nesting THEN 1 + DeepestIn(body[i].c[2].c)
                       ELSE IF body[i].k = "Try" THEN DeepestIn(body[i].c[1].c)
                       ELSE 0 : i \in 1..Len(body)})

\* what the rule last applied measures on the function
Measured ==
    LET node == checked.node
    IN IF checked.rule = "function-too-long" THEN node.end_lineno - node.lineno + 1
       ELSE IF checked.rule = "too-many-parameters"
       THEN Cardinality({i \in 1..Len(node.args.args) : TRUE})
               + Cardinality({i \in 1..Len(node.args.kwonlyargs) : TRUE})
               + Cardinality({a \in {node.args.vararg, node.args.kwarg} : a # <<>>})
       ELSE DeepestIn(node.body)

\* C24: a rule that measures v against the limit m reports no issue when
\* v <= m; else the severity is CRITICAL when v > 2m, WARN when
\* 1.5m < v <= 2m and INFO when m < v <= 1.5m.
C24_SeverityByExcess ==
    checked.rule # "none" /\ checked.rule # "idle" =>
        LET v == Measured
            m == checked.limit
        IN /\ v <= m => issue = <<>>
           /\ v > m =>
                 /\ Len(issue) = 1
                 /\ v > 2 * m => issue[1].severity = "CRITICAL"
                 /\ (2 * v > 3 * m /\ v <= 2 * m) => issue[1].severity = "WARN"
                 /\ 2 * v <= 3 * m => issue[1].severity = "INFO"

C24_Witness ==
    /\ checked.rule = "deep-nesting"
    /\ checked.limit = 2
    /\ Measured = 4
    /\ issue # <<>>
    /\ issue[1].severity = "WARN"

C24_InfoWitness ==
    /\ checked.rule = "too-many-parameters"
    /\ checked.limit = 2
    /\ Measured = 3
    /\ issue # <<>>
    /\ issue[1].severity = "INFO"

C24_CriticalWitness ==
    /\ checked.rule = "function-too-long"
    /\ checked.limit = 3
    /\ Measured = 7
    /\ issue # <<>>
    /\ issue[1].severity = "CRITICAL"

====
